---- MODULE Spec2Model ----
(***************************************************************************)
(* Multi-tenant hotel-website CMS backend: identities, tenants, the        *)
(* authentication / role / tenant-scope gates, the embedded collections of  *)
(* a tenant document, the stored image files and the public read.          *)
(*                                                                         *)
(* Every request is one action: the middleware chain of its route          *)
(* (authenticate -> authorize -> checkWebsiteAccess) followed by the       *)
(* controller, with the response recorded in resp.                         *)
(***************************************************************************)
EXTENDS Integers, Sequences, FiniteSets, TLC

\* ------------------------------------------------------------------ bounds
MaxUsers == 3
MaxSites == 2
MaxIssue == 2
MaxHeroIds == 3
MaxSubIds == 7
MaxFiles == 2

UserIds == 1..MaxUsers
WebsiteIds == 1..MaxSites

\* An unset ObjectId reference / an undefined string field.
NoId == 0
\* A field of a request body: Absent when the body does not carry it
\* (undefined), Some(v) when it carries v; Get is the value, d when absent.
Absent == {}
Some(v) == {v}
Get(o, d) == IF o = {} THEN d ELSE CHOOSE v \in o : TRUE
Opt(S) == {Absent} \cup {Some(v) : v \in S}

Roles == {"super_admin", "admin"}

VARIABLES
  users,        \* Identity Store: one document per user id
  websites,     \* Tenant Store: core fields of each tenant document
  heroSections, \* Tenant Store: the embedded heroSections of each tenant
  heroIds,      \* hero sub-document ids generated so far (never reused)
  rooms,        \* Tenant Store: the embedded rooms of each tenant
  facilities,   \* Tenant Store: the embedded facilities of each tenant
  reviews,      \* Tenant Store: the embedded reviews of each tenant
  subIds,       \* room / facility / review ids generated so far
  files,        \* Image Storage: the files under the public directory
  fileIds,      \* file names generated so far (never reused)
  pending,      \* a deleteWebsite request between two of its awaits
  messages,     \* Contact Message Store: one document per message id
  msgIds,       \* contact message ids generated so far (never reused)
  inflight,     \* per client: an updateRoom request between load and save
  issued,       \* per user: number of token pairs generated so far
  held,         \* per user: an access token a client still holds
  resp          \* the last request and its response

vars == <<users, websites, heroSections, heroIds, rooms, facilities, reviews,
          subIds, files, fileIds, pending, messages, msgIds, inflight,
          issued, held, resp>>

\* The embedded collections other than the hero sections, and the storage.
content == <<rooms, facilities, reviews, subIds>>
storage == <<files, fileIds>>
inbox == <<messages, msgIds>>

\* ------------------------------------------------------------ documents
\* A slot that never held a document, a stored document, a removed document.
NoUser == [status |-> "none", role |-> "admin", websiteId |-> NoId,
           websiteAccess |-> {}, isActive |-> FALSE,
           refreshToken |-> NoId, lastLogin |-> NoId]

GoneUser == [NoUser EXCEPT !.status = "deleted"]

\* name, domain and uniqueId are strings; defined is the set of embedded
\* paths of the document that are not undefined; logo and footerLogo are
\* those of siteSettings and storyImages the images of ourStory.
NoWebsite == [status |-> "none", assignedAdmin |-> NoId, isActive |-> FALSE,
              name |-> "", domain |-> "", uniqueId |-> "", defined |-> {},
              logo |-> "", footerLogo |-> "", storyImages |-> <<>>]

GoneWebsite == [NoWebsite EXCEPT !.status = "deleted"]

\* User.findById / Website.findById
UserExists(u) == u \in UserIds /\ users[u].status = "live"

WebsiteExists(w) == w \in WebsiteIds /\ websites[w].status = "live"

\* ------------------------------------------------------------ messages
MaxMessages == 2
MessageIds == 1..MaxMessages

\* A slot that never held a contact message, a stored message, a removed one.
NoMessage == [status |-> "none", websiteId |-> NoId, isRead |-> FALSE]

GoneMessage == [NoMessage EXCEPT !.status = "deleted"]

MessageExists(m) == m \in MessageIds /\ messages[m].status = "live"

\* ------------------------------------------------------------ strings
Upper == "ABCDEFGHIJKLMNOPQRSTUVWXYZ"
Lower == "abcdefghijklmnopqrstuvwxyz"
Digits == "0123456789"

CharAt(s, i) == SubSeq(s, i, i)

Has(s, c) == \E i \in 1..Len(s) : CharAt(s, i) = c

StartsWith(s, prefix) ==
  Len(s) >= Len(prefix) /\ SubSeq(s, 1, Len(prefix)) = prefix

\* String.prototype.toLowerCase
LowerChar(c) ==
  IF Has(Upper, c)
  THEN CharAt(Lower, CHOOSE i \in 1..Len(Upper) : CharAt(Upper, i) = c)
  ELSE c

RECURSIVE toLowerCase(_)
toLowerCase(s) ==
  IF s = "" THEN ""
  ELSE LowerChar(CharAt(s, 1)) \o toLowerCase(SubSeq(s, 2, Len(s)))

\* .replace(/[^a-z0-9]/g, '-')
RECURSIVE ReplaceNonAlnum(_)
ReplaceNonAlnum(s) ==
  IF s = "" THEN ""
  ELSE (IF Has(Lower, CharAt(s, 1)) \/ Has(Digits, CharAt(s, 1))
        THEN CharAt(s, 1) ELSE "-")
       \o ReplaceNonAlnum(SubSeq(s, 2, Len(s)))

\* .replace(/-+/g, '-')
RECURSIVE CollapseDashes(_)
CollapseDashes(s) ==
  IF Len(s) < 2 THEN s
  ELSE IF CharAt(s, 1) = "-" /\ CharAt(s, 2) = "-"
       THEN CollapseDashes(SubSeq(s, 2, Len(s)))
       ELSE CharAt(s, 1) \o CollapseDashes(SubSeq(s, 2, Len(s)))

\* .replace(/^-|-$/g, '')
TrimDashes(s) ==
  LET t == IF StartsWith(s, "-") THEN SubSeq(s, 2, Len(s)) ELSE s
  IN  IF t # "" /\ CharAt(t, Len(t)) = "-"
      THEN SubSeq(t, 1, Len(t) - 1) ELSE t

\* ------------------------------------------------------------ image storage
\* The folder name of a website: its name lower-cased, every character
\* outside a-z0-9 turned into a dash, runs of dashes collapsed, a dash at
\* either end dropped, 'default' when nothing is left.
sanitizeWebsiteName(name) ==
  LET t == TrimDashes(CollapseDashes(ReplaceNonAlnum(toLowerCase(name))))
  IN  IF t = "" THEN "default" ELSE t

\* The k-th generated file name (uuidv4() followed by the extension).
FileName(k) == "f" \o ToString(k) \o ".jpg"

\* The URL saveImageBuffer returns for the k-th file written for a website
\* of the given name.
saveImageBuffer(websiteName, k) ==
  "/public/" \o sanitizeWebsiteName(websiteName) \o "/" \o FileName(k)

\* A stored file: its URL, and the tenant whose upload wrote it.
StoredFile(url, w) == [url |-> url, websiteId |-> w]

\* deleteImageFile: the files left when the file at imageUrl is unlinked.
deleteImageFile(fs, imageUrl) ==
  IF imageUrl = "" \/ ~StartsWith(imageUrl, "/public/") THEN fs
  ELSE {f \in fs : f.url # imageUrl}

\* deleteMultipleImageFiles: deleteImageFile for each URL of the list.
RECURSIVE deleteMultipleImageFiles(_, _)
deleteMultipleImageFiles(fs, imageUrls) ==
  IF imageUrls = <<>> THEN fs
  ELSE deleteMultipleImageFiles(deleteImageFile(fs, Head(imageUrls)),
                                Tail(imageUrls))

\* deleteWebsiteFolder: the files left when the folder of a website of the
\* given name is removed with everything in it.
deleteWebsiteFolder(fs, websiteName) ==
  LET dir == "/public/" \o sanitizeWebsiteName(websiteName) \o "/"
  IN  {f \in fs : ~StartsWith(f.url, dir)}

\* ------------------------------------------------------------ hero sections
\* HeroSectionSchema: the page kinds of the enum that the model uses, a page
\* value outside the enum, and a text longer than the schema's maxlength.
HeroPageType == {"home", "about"}
BogusPage == "pricing"
TooLong == "text of more than 500 characters"
Images == {"/public/h/a.jpg", "/public/h/b.jpg"}
Texts == {"welcome"}

HeroSection(id, page, image, text, isActive) ==
  [id |-> id, page |-> page, image |-> image, text |-> text,
   isActive |-> isActive]

NoHero == HeroSection(NoId, "", "", "", FALSE)

\* ------------------------------------------------------------ tokens
\* Payload of a signed access token.
JwtPayload(u, r, w) == [userId |-> u, role |-> r, websiteId |-> w]

NoToken == JwtPayload(NoId, "admin", NoId)

\* What a request carries in its Authorization header.
Cred(k, t) == [kind |-> k, tok |-> t]

\* Credentials a client can present: no usable header, a forged token, or a
\* token that was really issued (still valid or expired by now).
Creds ==
  {Cred(k, NoToken) : k \in {"missing", "malformed", "empty"}}
    \cup {Cred("badsig", JwtPayload(1, "super_admin", NoId))}
    \cup {Cred(k, held[u]) : k \in {"expired", "ok"},
                              u \in {x \in UserIds : held[x] # NoToken}}

\* generateTokens: the pair issued for user u with the given role and scope.
\* The refresh token is identified by its serial number among u's tokens.
generateTokens(u, r, w) ==
  [access |-> JwtPayload(u, r, w), refresh |-> issued[u] + 1]

NoTokens == [access |-> NoToken, refresh |-> NoId]

\* ------------------------------------------------------------ public data
\* A quotient num / den of two integers, as the division computes it.
Ratio(num, den) == [num |-> num, den |-> den]

\* The website object of a public read.
PublicWebsite(uniqueId, name, domain, isActive) ==
  [uniqueId |-> uniqueId, name |-> name, domain |-> domain,
   isActive |-> isActive]

\* The data of a public read: the website object, the rooms, hero sections,
\* facilities and reviews returned, the counts and the average rating.
PublicData(website, rs, hs, fs, rv, nRooms, nFacilities, averageRating) ==
  [website |-> website, rooms |-> rs, heroSections |-> hs,
   facilities |-> fs, reviews |-> rv, totalRooms |-> nRooms,
   totalFacilities |-> nFacilities, averageRating |-> averageRating]

NoPublic ==
  PublicData(PublicWebsite("", "", "", FALSE), <<>>, <<>>, <<>>, <<>>, 0, 0,
             Ratio(0, 1))

\* ------------------------------------------------------------ responses
\* op: the route; cred: the credential presented; roles: the roles the
\* route's role gate permits ({} when it has none); user: the identity the
\* request ran as; target: the tenant the request names; list: the tenant
\* documents returned; tokens: the token pair returned.
\* item: the hero section returned; params: the request's :websiteId, :id
\* and body websiteId where the model varies them independently; body: the
\* request body of a content request; again: whether the request repeats
\* the successful request right before it; url: the URL of the file an
\* upload stored; public: the projection a public read returned.
Response(op, cred, roles, status, user, target, list, tokens) ==
  [op |-> op, cred |-> cred, roles |-> roles, status |-> status,
   user |-> user, target |-> target, list |-> list, tokens |-> tokens,
   item |-> NoHero, params |-> <<NoId, NoId, NoId>>, body |-> <<>>,
   again |-> FALSE, url |-> "", public |-> NoPublic]

\* An error response, or a success that returns neither a list nor tokens.
Reply(op, cred, roles, status, user, target) ==
  Response(op, cred, roles, status, user, target, {}, NoTokens)

NoCred == Cred("missing", NoToken)

\* No deleteWebsite request has been followed await by await.
\* pc is "loaded", "unassigned" and "cleaned" after the request's first,
\* second and third step and "done" once it has responded; assignedAdmin and
\* name are those of the document the request loaded.
NoDelete == [pc |-> "none", cred |-> NoCred, user |-> NoId, target |-> NoId,
             assignedAdmin |-> NoId, name |-> ""]

\* The clients that can have a request in flight at the same time.
MaxClients == 2
Clients == 1..MaxClients

\* No request of the client is between its load and its save. Otherwise pc
\* is "loaded"; room is the sub-document as findById returned it; status is
\* the status of the last response to the client.
NoRequest == [pc |-> "none", cred |-> NoCred, user |-> NoId, target |-> NoId,
              roomId |-> NoId, mainImage |-> Absent, isAvailable |-> Absent,
              room |-> <<>>, status |-> 0]

\* ------------------------------------------------------------ the gates
\* Request context after a middleware ran: status 200 stands for next().
Ctx(status, user, websiteId) ==
  [status |-> status, user |-> user, websiteId |-> websiteId]

\* authenticate without the check of the user's isActive flag.
authenticate_SkipActive(cred) ==
  IF cred.kind \in {"missing", "malformed", "empty", "badsig", "expired"}
  THEN Ctx(401, NoId, NoId)
  ELSE IF ~UserExists(cred.tok.userId) THEN Ctx(401, NoId, NoId)
  ELSE Ctx(200, cred.tok.userId,
           IF cred.tok.websiteId # NoId THEN cred.tok.websiteId
           ELSE users[cred.tok.userId].websiteId)

\* authenticate: 401 without a usable bearer token, for a token that fails
\* verification and for a token of a user that no longer exists; 403 for a
\* deactivated user; otherwise attaches the user and the effective scope.
authenticate(cred) ==
  IF cred.kind \in {"missing", "malformed"} THEN Ctx(401, NoId, NoId)
  ELSE IF cred.kind = "empty" THEN Ctx(401, NoId, NoId)
  ELSE IF cred.kind \in {"badsig", "expired"} THEN Ctx(401, NoId, NoId)
  ELSE IF ~UserExists(cred.tok.userId) THEN Ctx(401, NoId, NoId)
  ELSE IF ~users[cred.tok.userId].isActive THEN Ctx(403, NoId, NoId)
  ELSE Ctx(200, cred.tok.userId,
           IF cred.tok.websiteId # NoId THEN cred.tok.websiteId
           ELSE users[cred.tok.userId].websiteId)

\* authorize that lets every authenticated user through.
authorize_AnyRole(roles, ctx) ==
  IF ctx.user = NoId THEN 401 ELSE 200

\* authorize(...roles): 401 when the context has no user, 403 when the
\* user's role is not permitted.
authorize(roles, ctx) ==
  IF ctx.user = NoId THEN 401
  ELSE IF users[ctx.user].role \notin roles THEN 403
  ELSE 200

\* The tenant id checkWebsiteAccess resolves from the request:
\* req.params.websiteId || req.params.id || req.body.websiteId
ResolveWebsiteId(pWebsiteId, pId, bWebsiteId) ==
  IF pWebsiteId # NoId THEN pWebsiteId
  ELSE IF pId # NoId THEN pId
  ELSE bWebsiteId

\* checkWebsiteAccess deciding by the caller's own websiteId instead of the
\* tenant's assignedAdmin.
checkWebsiteAccess_ByWebsiteId(ctx, w) ==
  IF ctx.user = NoId THEN 401
  ELSE IF users[ctx.user].role = "super_admin" THEN 200
  ELSE IF w = NoId THEN 200
  ELSE IF ~WebsiteExists(w) THEN 404
  ELSE IF users[ctx.user].websiteId # w THEN 403
  ELSE 200

\* checkWebsiteAccess on a request whose resolved tenant id is w.
checkWebsiteAccess(ctx, w) ==
  IF ctx.user = NoId THEN 401
  ELSE IF users[ctx.user].role = "super_admin" THEN 200
  ELSE IF w = NoId THEN 200
  ELSE IF ~WebsiteExists(w) THEN 404
  ELSE IF ~(websites[w].assignedAdmin # NoId
            /\ websites[w].assignedAdmin = ctx.user) THEN 403
  ELSE 200

\* The middleware chain of a route: router.use(authenticate), then
\* authorize(roles) when the route has a role gate (roles # {}), then
\* checkWebsiteAccess when the route has the tenant-scope gate.
Chain(cred, roles, scoped, w) ==
  LET ctx == authenticate(cred)
      roleStatus == IF roles = {} THEN 200 ELSE authorize(roles, ctx)
      scopeStatus == IF scoped THEN checkWebsiteAccess(ctx, w) ELSE 200
  IN  IF ctx.status # 200 THEN ctx
      ELSE IF roleStatus # 200 THEN [ctx EXCEPT !.status = roleStatus]
      ELSE IF scopeStatus # 200 THEN [ctx EXCEPT !.status = scopeStatus]
      ELSE ctx

\* A client keeps the access token it is handed, or goes on using the one
\* it already holds.
Hold(u, tok) ==
  held' \in {IF held[u] = NoToken THEN [held EXCEPT ![u] = tok] ELSE held,
             [held EXCEPT ![u] = tok]}


\* ------------------------------------------------------------ auth routes
SuperOnly == {"super_admin"}
Operators == {"super_admin", "admin"}

\* POST /auth/register (public): e is the email, which is also the slot of
\* the new document; role is the body's role or Absent.
register(e, role) ==
  IF users[e].status = "live"
  THEN /\ resp' = Reply("register", NoCred, {}, 400, NoId, NoId)
       /\ UNCHANGED <<users, websites, heroSections, heroIds, issued, held,
                      content, storage, pending, inbox, inflight>>
  ELSE LET r == Get(role, "admin")
           tokens == generateTokens(e, r, NoId)
       IN  /\ users[e].status = "none"
           /\ issued[e] < MaxIssue
           /\ users' = [users EXCEPT ![e] =
                          [status |-> "live", role |-> r, websiteId |-> NoId,
                           websiteAccess |-> {}, isActive |-> TRUE,
                           refreshToken |-> tokens.refresh,
                           lastLogin |-> NoId]]
           /\ issued' = [issued EXCEPT ![e] = tokens.refresh]
           /\ Hold(e, tokens.access)
           /\ resp' = Response("register", NoCred, {}, 201, e, NoId, {}, tokens)
           /\ UNCHANGED <<websites, heroSections, heroIds,
                          content, storage, pending, inbox, inflight>>

\* login without the check that an admin is assigned to a website.
LoginStatus_NoWebsiteCheck(e, pwOk) ==
  IF users[e].status # "live" THEN 401
  ELSE IF ~users[e].isActive THEN 403
  ELSE IF ~pwOk THEN 401
  ELSE 200

\* The status login answers with, 200 when it issues tokens.
LoginStatus(e, pwOk) ==
  IF users[e].status # "live" THEN 401
  ELSE IF ~users[e].isActive THEN 403
  ELSE IF ~pwOk THEN 401
  ELSE IF users[e].role = "admin" /\ users[e].websiteId = NoId THEN 403
  ELSE 200

\* POST /auth/login (public): pwOk is the outcome of comparePassword.
login(e, pwOk) ==
  LET status == LoginStatus(e, pwOk)
      tokens == generateTokens(e, users[e].role, users[e].websiteId)
      cred == Cred(IF pwOk THEN "password" ELSE "wrongpassword", NoToken)
  IN  IF status # 200
      THEN /\ resp' = Reply("login", cred, {}, status,
                            IF users[e].status = "live" THEN e ELSE NoId, NoId)
           /\ UNCHANGED <<users, websites, heroSections, heroIds, issued, held,
                          content, storage, pending, inbox, inflight>>
      ELSE /\ issued[e] < MaxIssue
           /\ users' = [users EXCEPT ![e].refreshToken = tokens.refresh,
                                     ![e].lastLogin = tokens.refresh]
           /\ issued' = [issued EXCEPT ![e] = tokens.refresh]
           /\ Hold(e, tokens.access)
           /\ resp' = Response("login", cred, {}, 200, e, NoId, {}, tokens)
           /\ UNCHANGED <<websites, heroSections, heroIds,
                          content, storage, pending, inbox, inflight>>

\* POST /auth/logout (authenticated)
logout(cred) ==
  LET ctx == Chain(cred, {}, FALSE, NoId)
  IN  /\ resp' = Reply("logout", cred, {}, ctx.status, ctx.user, NoId)
      /\ IF ctx.status # 200
         THEN UNCHANGED users
         ELSE users' = [users EXCEPT ![ctx.user].refreshToken = NoId]
      /\ UNCHANGED <<websites, heroSections, heroIds, issued, held,
                     content, storage, pending, inbox, inflight>>

\* The status that accepts every token that verifies and names a stored
\* user.
RefreshStatus_AnyIssued(kind, u, serial) ==
  IF kind = "missing" THEN 400
  ELSE IF kind # "ok" THEN 401
  ELSE IF ~UserExists(u) THEN 401
  ELSE 200

\* The status of a refresh: the body carries a token, the token verifies,
\* and it is the one stored with its user.
RefreshStatus(kind, u, serial) ==
  IF kind = "missing" THEN 400
  ELSE IF kind # "ok" THEN 401
  ELSE IF ~UserExists(u) \/ users[u].refreshToken # serial THEN 401
  ELSE 200

\* POST /auth/refresh (public): kind tells whether the body carries a token
\* and whether it verifies; (u, serial) identify the refresh token, which
\* the response records as body once the token is verified and decoded.
refreshToken(kind, u, serial) ==
  LET status == RefreshStatus(kind, u, serial)
      tokens == generateTokens(u, users[u].role, users[u].websiteId)
      presented == IF kind = "ok" THEN <<u, serial>> ELSE <<>>
  IN  IF status # 200
      THEN /\ resp' = [Reply("refresh", Cred(kind, NoToken), {}, status, NoId,
                             NoId)
                         EXCEPT !.body = presented]
           /\ UNCHANGED <<users, websites, heroSections, heroIds, issued, held,
                          content, storage, pending, inbox, inflight>>
      ELSE /\ issued[u] < MaxIssue
           /\ users' = [users EXCEPT ![u].refreshToken = tokens.refresh]
           /\ issued' = [issued EXCEPT ![u] = tokens.refresh]
           /\ Hold(u, tokens.access)
           /\ resp' = [Response("refresh", Cred(kind, NoToken), {}, 200, u,
                                NoId, {}, tokens)
                         EXCEPT !.body = presented]
           /\ UNCHANGED <<websites, heroSections, heroIds,
                          content, storage, pending, inbox, inflight>>

\* ------------------------------------------------------------ /users routes
\* Every /users route: router.use(authenticate); router.use(authorize('super_admin')).

\* POST /users: e is the email and the slot of the new document.
createUser(cred, e, role, websiteId, websiteAccess, isActive) ==
  LET ctx == Chain(cred, SuperOnly, FALSE, NoId)
      status == IF ctx.status # 200 THEN ctx.status
                ELSE IF users[e].status = "live" THEN 400
                ELSE 201
      userRole == IF users[ctx.user].role = "super_admin" THEN "admin"
                  ELSE Get(role, "admin")
  IN  /\ resp' = Reply("createUser", cred, SuperOnly, status, ctx.user, NoId)
      /\ IF status # 201
         THEN UNCHANGED users
         ELSE /\ users[e].status = "none"
              /\ users' = [users EXCEPT ![e] =
                   [status |-> "live", role |-> userRole,
                    websiteId |-> Get(websiteId, NoId),
                    websiteAccess |-> Get(websiteAccess, {}),
                    isActive |-> Get(isActive, TRUE),
                    refreshToken |-> NoId, lastLogin |-> NoId]]
      /\ UNCHANGED <<websites, heroSections, heroIds, issued, held,
                     content, storage, pending, inbox, inflight>>

\* PUT /users/:id: only the fields present in the body are written.
updateUser(cred, id, role, websiteId, websiteAccess, isActive) ==
  LET ctx == Chain(cred, SuperOnly, FALSE, NoId)
      status == IF ctx.status # 200 THEN ctx.status
                ELSE IF ~UserExists(id) THEN 404
                ELSE IF users[id].role = "super_admin"
                        /\ users[ctx.user].role # "super_admin" THEN 403
                ELSE 200
  IN  /\ resp' = Reply("updateUser", cred, SuperOnly, status, ctx.user, NoId)
      /\ IF status # 200
         THEN UNCHANGED users
         ELSE users' = [users EXCEPT ![id] =
                [@ EXCEPT
                   !.role = Get(role, @),
                   !.websiteId = Get(websiteId, @),
                   !.websiteAccess = Get(websiteAccess, @),
                   !.isActive = Get(isActive, @)]]
      /\ UNCHANGED <<websites, heroSections, heroIds, issued, held,
                     content, storage, pending, inbox, inflight>>

\* DELETE /users/:id
deleteUser(cred, id) ==
  LET ctx == Chain(cred, SuperOnly, FALSE, NoId)
      status == IF ctx.status # 200 THEN ctx.status
                ELSE IF ~UserExists(id) THEN 404
                ELSE IF users[id].role = "super_admin" THEN 403
                ELSE IF id = ctx.user THEN 403
                ELSE 200
  IN  /\ resp' = Reply("deleteUser", cred, SuperOnly, status, ctx.user, NoId)
      /\ IF status # 200
         THEN UNCHANGED users
         ELSE users' = [users EXCEPT ![id] = GoneUser]
      /\ UNCHANGED <<websites, heroSections, heroIds, issued, held,
                     content, storage, pending, inbox, inflight>>

\* PATCH /users/:id/permissions
updateUserPermissions(cred, id, websiteAccess, role) ==
  LET ctx == Chain(cred, SuperOnly, FALSE, NoId)
      status == IF ctx.status # 200 THEN ctx.status
                ELSE IF ~UserExists(id) THEN 404
                ELSE IF users[id].role = "super_admin"
                        /\ users[ctx.user].role # "super_admin" THEN 403
                ELSE 200
  IN  /\ resp' = Reply("updateUserPermissions", cred, SuperOnly, status,
                       ctx.user, NoId)
      /\ IF status # 200
         THEN UNCHANGED users
         ELSE users' = [users EXCEPT ![id] =
                [@ EXCEPT
                   !.websiteAccess = Get(websiteAccess, @),
                   !.role = Get(role, @)]]
      /\ UNCHANGED <<websites, heroSections, heroIds, issued, held,
                     content, storage, pending, inbox, inflight>>

\* PATCH /users/:id/toggle-status
toggleUserStatus(cred, id) ==
  LET ctx == Chain(cred, SuperOnly, FALSE, NoId)
      status == IF ctx.status # 200 THEN ctx.status
                ELSE IF ~UserExists(id) THEN 404
                ELSE IF users[id].role = "super_admin" THEN 403
                ELSE 200
  IN  /\ resp' = Reply("toggleUserStatus", cred, SuperOnly, status,
                       ctx.user, NoId)
      /\ IF status # 200
         THEN UNCHANGED users
         ELSE users' = [users EXCEPT ![id].isActive = ~@]
      /\ UNCHANGED <<websites, heroSections, heroIds, issued, held,
                     content, storage, pending, inbox, inflight>>

\* ------------------------------------------------------------ /websites routes
\* The uniqueId the schema default generates for the document with _id d.
uuidv4(d) == "uuid-" \o ToString(d)

\* The domain lookup comparing the domain as the request spells it.
DomainInUse_Uncast(domain, except) ==
  \E w \in WebsiteIds :
    /\ WebsiteExists(w)
    /\ w # except
    /\ websites[w].domain = domain

\* Website.findOne({domain, _id: {$ne: except}}): the domain is cast with
\* the schema's lowercase setter.
DomainInUse(domain, except) ==
  LET cast == toLowerCase(domain)
  IN  \E w \in WebsiteIds :
        /\ WebsiteExists(w)
        /\ w # except
        /\ websites[w].domain = cast

\* The embedded paths createWebsite passes to Website.create, and the paths
\* the schema fills with a default (arrays and nested objects) when the
\* document is built.
CreatedPaths == {"hotelInfo", "rooms", "heroSections", "ourStory",
                 "facilities", "reviews", "siteSettings"}
DefaultedPaths == {"hotelInfo", "rooms", "heroSections", "facilities",
                   "reviews", "siteSettings", "settings", "seo"}

\* POST /websites: d is the _id the new document gets; every embedded
\* collection starts empty.
createWebsite(cred, d, name, domain) ==
  LET ctx == Chain(cred, SuperOnly, FALSE, NoId)
      status == IF ctx.status # 200 THEN ctx.status
                ELSE IF DomainInUse(domain, NoId) THEN 400
                ELSE 201
  IN  /\ resp' = [Reply("createWebsite", cred, SuperOnly, status, ctx.user,
                        IF status = 201 THEN d ELSE NoId)
                    EXCEPT !.body = <<name, domain>>]
      /\ IF status # 201
         THEN UNCHANGED <<websites, heroSections, rooms, facilities, reviews>>
         ELSE /\ websites[d].status = "none"
              /\ websites' = [websites EXCEPT ![d] =
                   [status |-> "live", assignedAdmin |-> NoId,
                    isActive |-> TRUE, name |-> name,
                    domain |-> toLowerCase(domain), uniqueId |-> uuidv4(d),
                    defined |-> CreatedPaths \cup DefaultedPaths,
                    logo |-> "", footerLogo |-> "", storyImages |-> <<>>]]
              /\ heroSections' = [heroSections EXCEPT ![d] = <<>>]
              /\ rooms' = [rooms EXCEPT ![d] = <<>>]
              /\ facilities' = [facilities EXCEPT ![d] = <<>>]
              /\ reviews' = [reviews EXCEPT ![d] = <<>>]
      /\ UNCHANGED <<users, heroIds, subIds, issued, held, storage, pending,
                     inbox, inflight>>

\* The unassignment without the $pull from websiteAccess.
Unassign_KeepAccess(us, a, w) ==
  IF a \in UserIds /\ us[a].status = "live"
  THEN [us EXCEPT ![a].websiteId = NoId]
  ELSE us

\* User.findByIdAndUpdate(a, {$unset: {websiteId: 1}, $pull: {websiteAccess: w}})
Unassign(us, a, w) ==
  IF a \in UserIds /\ us[a].status = "live"
  THEN [us EXCEPT ![a].websiteId = NoId,
                  ![a].websiteAccess = @ \ {w}]
  ELSE us

\* DELETE /websites/:id
deleteWebsite(cred, t) ==
  LET ctx == Chain(cred, SuperOnly, FALSE, NoId)
      status == IF ctx.status # 200 THEN ctx.status
                ELSE IF ~WebsiteExists(t) THEN 404
                ELSE 200
  IN  /\ resp' = Reply("deleteWebsite", cred, SuperOnly, status, ctx.user, t)
      /\ IF status # 200
         THEN UNCHANGED <<users, websites, heroSections, rooms, facilities,
                          reviews, files>>
         ELSE /\ users' = IF websites[t].assignedAdmin # NoId
                          THEN Unassign(users, websites[t].assignedAdmin, t)
                          ELSE users
              /\ files' = deleteWebsiteFolder(files, websites[t].name)
              /\ websites' = [websites EXCEPT ![t] = GoneWebsite]
              /\ heroSections' = [heroSections EXCEPT ![t] = <<>>]
              /\ rooms' = [rooms EXCEPT ![t] = <<>>]
              /\ facilities' = [facilities EXCEPT ![t] = <<>>]
              /\ reviews' = [reviews EXCEPT ![t] = <<>>]
      /\ UNCHANGED <<heroIds, subIds, fileIds, issued, held, pending, inbox, inflight>>

\* DELETE /websites/:id, await by await. The request loads the document ...
deleteWebsite_load(cred, t) ==
  LET ctx == Chain(cred, SuperOnly, FALSE, NoId)
      status == IF ctx.status # 200 THEN ctx.status
                ELSE IF ~WebsiteExists(t) THEN 404
                ELSE 200
  IN  /\ pending.pc \in {"none", "done"}
      /\ IF status # 200
         THEN /\ resp' = Reply("deleteWebsite", cred, SuperOnly, status,
                               ctx.user, t)
              /\ UNCHANGED pending
         ELSE /\ pending' = [pc |-> "loaded", cred |-> cred, user |-> ctx.user,
                             target |-> t,
                             assignedAdmin |-> websites[t].assignedAdmin,
                             name |-> websites[t].name]
              /\ UNCHANGED resp
      /\ UNCHANGED <<users, websites, heroSections, heroIds, content, storage,
                     issued, held, inbox, inflight>>

\* ... then unassigns the admin of the loaded document, if it has one ...
deleteWebsite_unassign ==
  /\ pending.pc = "loaded"
  /\ users' = IF pending.assignedAdmin # NoId
              THEN Unassign(users, pending.assignedAdmin, pending.target)
              ELSE users
  /\ pending' = [pending EXCEPT !.pc = "unassigned"]
  /\ UNCHANGED <<websites, heroSections, heroIds, content, storage, issued,
                 held, resp, inbox, inflight>>

\* ... then removes the folder of the loaded document's name ...
deleteWebsite_folder ==
  /\ pending.pc = "unassigned"
  /\ files' = deleteWebsiteFolder(files, pending.name)
  /\ pending' = [pending EXCEPT !.pc = "cleaned"]
  /\ UNCHANGED <<users, websites, heroSections, heroIds, content, fileIds,
                 issued, held, resp, inbox, inflight>>

\* ... then removes the document and responds.
deleteWebsite_remove ==
  LET t == pending.target
  IN  /\ pending.pc = "cleaned"
      /\ websites' = [websites EXCEPT ![t] = GoneWebsite]
      /\ heroSections' = [heroSections EXCEPT ![t] = <<>>]
      /\ rooms' = [rooms EXCEPT ![t] = <<>>]
      /\ facilities' = [facilities EXCEPT ![t] = <<>>]
      /\ reviews' = [reviews EXCEPT ![t] = <<>>]
      /\ resp' = Reply("deleteWebsite", pending.cred, SuperOnly, 200,
                       pending.user, t)
      /\ pending' = [pending EXCEPT !.pc = "done"]
      /\ UNCHANGED <<users, heroIds, subIds, storage, issued, held, inbox,
                     inflight>>

\* The status without the check of the role.
AssignAdminStatus_AnyRole(t, adminId) ==
  IF ~WebsiteExists(t) THEN 404
  ELSE IF adminId = NoId THEN 200
  ELSE IF ~UserExists(adminId) THEN 404
  ELSE 200

\* The status assignAdmin's own checks give: the website exists, and the
\* user of a body's adminId exists and has the role admin.
AssignAdminStatus(t, adminId) ==
  IF ~WebsiteExists(t) THEN 404
  ELSE IF adminId = NoId THEN 200
  ELSE IF ~UserExists(adminId) THEN 404
  ELSE IF users[adminId].role # "admin" THEN 400
  ELSE 200

\* PATCH /websites/:id/assign-admin: adminId is the body's adminId, NoId
\* when the body has none. The response records as body the adminId that
\* User.findById looked up, if the handler came to look one up.
assignAdmin(cred, t, adminId) ==
  LET ctx == Chain(cred, SuperOnly, FALSE, NoId)
      status == IF ctx.status # 200 THEN ctx.status
                ELSE AssignAdminStatus(t, adminId)
  IN  /\ resp' = [Reply("assignAdmin", cred, SuperOnly, status, ctx.user, t)
                    EXCEPT !.body = IF /\ ctx.status = 200
                                       /\ WebsiteExists(t)
                                       /\ adminId # NoId
                                    THEN <<adminId>>
                                    ELSE <<>>]
      /\ IF status # 200
         THEN UNCHANGED <<users, websites>>
         ELSE IF adminId # NoId
         THEN /\ websites' = [websites EXCEPT ![t].assignedAdmin = adminId]
              /\ users' = [users EXCEPT
                             ![adminId].websiteId = t,
                             ![adminId].websiteAccess = @ \cup {t}]
         ELSE /\ websites' = [websites EXCEPT ![t].assignedAdmin = NoId]
              /\ users' = IF websites[t].assignedAdmin # NoId
                          THEN Unassign(users, websites[t].assignedAdmin, t)
                          ELSE users
      /\ UNCHANGED <<heroSections, heroIds, issued, held,
                     content, storage, pending, inbox, inflight>>

\* GET /websites/:id
getWebsite(cred, t) ==
  LET ctx == Chain(cred, {}, TRUE, t)
      status == IF ctx.status # 200 THEN ctx.status
                ELSE IF ~WebsiteExists(t) THEN 404
                ELSE 200
  IN  /\ resp' = Response("getWebsite", cred, {}, status, ctx.user, t,
                          IF status = 200 THEN {t} ELSE {}, NoTokens)
      /\ UNCHANGED <<users, websites, heroSections, heroIds, issued, held,
                     content, storage, pending, inbox, inflight>>

\* PUT /websites/:id: name, domain and isActive are the body's fields or
\* Absent; only the fields present are written.
updateWebsite(cred, t, name, domain, isActive) ==
  LET ctx == Chain(cred, Operators, TRUE, t)
      status == IF ctx.status # 200 THEN ctx.status
                ELSE IF Get(domain, "") # "" /\ DomainInUse(Get(domain, ""), t)
                     THEN 400
                ELSE IF ~WebsiteExists(t) THEN 404
                ELSE 200
  IN  /\ resp' = [Reply("updateWebsite", cred, Operators, status, ctx.user, t)
                    EXCEPT !.body = <<name, domain, isActive>>]
      /\ IF status # 200
         THEN UNCHANGED websites
         ELSE websites' = [websites EXCEPT ![t] =
                [@ EXCEPT
                   !.name = Get(name, @),
                   !.domain = IF domain = Absent THEN @
                              ELSE toLowerCase(Get(domain, "")),
                   !.isActive = Get(isActive, @)]]
      /\ UNCHANGED <<users, heroSections, heroIds, issued, held,
                     content, storage, pending, inbox, inflight>>

\* POST /websites/:id/switch
switchWebsite(cred, t) ==
  LET ctx == Chain(cred, {}, TRUE, t)
      status == IF ctx.status # 200 THEN ctx.status
                ELSE IF ~WebsiteExists(t) THEN 404
                ELSE IF users[ctx.user].role = "admin" /\ ctx.websiteId # NoId
                        /\ t # ctx.websiteId THEN 403
                ELSE 200
  IN  /\ resp' = Response("switchWebsite", cred, {}, status, ctx.user, t,
                          IF status = 200 THEN {t} ELSE {}, NoTokens)
      /\ UNCHANGED <<users, websites, heroSections, heroIds, issued, held,
                     content, storage, pending, inbox, inflight>>

\* GET /websites: the tenants the query selects.
GetWebsitesQuery(ctx) ==
  IF users[ctx.user].role = "admin" /\ ctx.websiteId # NoId
  THEN {w \in WebsiteIds : WebsiteExists(w) /\ w = ctx.websiteId}
  ELSE {w \in WebsiteIds : WebsiteExists(w)}

getWebsites(cred) ==
  LET ctx == Chain(cred, {}, FALSE, NoId)
  IN  /\ resp' = Response("getWebsites", cred, {}, ctx.status, ctx.user, NoId,
                          IF ctx.status = 200 THEN GetWebsitesQuery(ctx) ELSE {},
                          NoTokens)
      /\ UNCHANGED <<users, websites, heroSections, heroIds, issued, held,
                     content, storage, pending, inbox, inflight>>

\* ------------------------------------------------------------ hero sections
\* Array.prototype.findIndex: the first index whose entry satisfies the test
\* (given as the set of entries that pass it), 0 when there is none.
FindIndex(seq, passing) ==
  IF \E i \in 1..Len(seq) : seq[i] \in passing
  THEN CHOOSE i \in 1..Len(seq) :
         seq[i] \in passing /\ \A j \in 1..(i - 1) : seq[j] \notin passing
  ELSE 0

\* Schema validation of a hero section at website.save().
HeroValid(h) == h.page \in HeroPageType /\ h.text # TooLong

\* upsertHeroSection that pushes a new entry without looking for the page.
UpsertHero_AlwaysPush(hs, newId, page, image, text, isActive) ==
  Append(hs, HeroSection(newId, page, Get(image, ""), Get(text, ""),
                         Get(isActive, TRUE)))

\* What upsertHeroSection makes of the loaded heroSections: the entry with
\* the same page updated field by field, or a new entry pushed.
UpsertHero(hs, newId, page, image, text, isActive) ==
  LET SamePage == {hs[i] : i \in {j \in 1..Len(hs) : hs[j].page = page}}
      existingIdx == FindIndex(hs, SamePage)
  IN  IF existingIdx > 0
      THEN [hs EXCEPT ![existingIdx] =
              [@ EXCEPT !.image = Get(image, @),
                        !.text = Get(text, @),
                        !.isActive = Get(isActive, @)]]
      ELSE Append(hs, HeroSection(newId, page,
                                  Get(image, ""),
                                  Get(text, ""),
                                  Get(isActive, TRUE)))

\* upsertHeroSection's cleanup without the comparison of the old image with
\* the new one.
UpsertHeroCleanup_NoCompare(fs, hs, page, image) ==
  LET SamePage == {hs[i] : i \in {j \in 1..Len(hs) : hs[j].page = page}}
      existingIdx == FindIndex(hs, SamePage)
  IN  IF existingIdx > 0 /\ image # Absent /\ hs[existingIdx].image # ""
      THEN deleteImageFile(fs, hs[existingIdx].image)
      ELSE fs

\* The files left after upsertHeroSection's cleanup: the image file of the
\* entry of the page is unlinked when the body carries an image, the entry
\* has one, and the two differ.
UpsertHeroCleanup(fs, hs, page, image) ==
  LET SamePage == {hs[i] : i \in {j \in 1..Len(hs) : hs[j].page = page}}
      existingIdx == FindIndex(hs, SamePage)
  IN  IF existingIdx > 0 /\ image # Absent /\ hs[existingIdx].image # ""
         /\ hs[existingIdx].image # Get(image, "")
      THEN deleteImageFile(fs, hs[existingIdx].image)
      ELSE fs

\* Whether a body names the page of the entry a previous upsert returned and
\* carries, in each field it has, the value that entry has.
RepeatsHero(item, page, image, text, isActive) ==
  /\ page = Some(item.page)
  /\ Get(image, item.image) = item.image
  /\ Get(text, item.text) = item.text
  /\ Get(isActive, item.isActive) = item.isActive

\* POST /websites/:websiteId/hero-sections: a body without page reads it as
\* undefined, which the model writes "". The cleanup runs before
\* website.save() validates.
upsertHeroSection(cred, t, page, image, text, isActive) ==
  LET ctx == Chain(cred, Operators, TRUE, t)
      hs == UpsertHero(heroSections[t], heroIds + 1, Get(page, ""), image,
                       text, isActive)
      pushed == Len(hs) > Len(heroSections[t])
      SamePage == {hs[i] : i \in {j \in 1..Len(hs) :
                                     hs[j].page = Get(page, "")}}
      status == IF ctx.status # 200 THEN ctx.status
                ELSE IF ~WebsiteExists(t) THEN 404
                ELSE IF \E i \in 1..Len(hs) : ~HeroValid(hs[i]) THEN 500
                ELSE 200
  IN  /\ resp' = [Reply("upsertHeroSection", cred, Operators, status,
                        ctx.user, t)
                    EXCEPT !.item = IF status = 200
                                    THEN hs[FindIndex(hs, SamePage)]
                                    ELSE NoHero,
                           !.again = /\ resp.op = "upsertHeroSection"
                                     /\ resp.status = 200
                                     /\ resp.cred = cred
                                     /\ resp.target = t
                                     /\ RepeatsHero(resp.item, page, image,
                                                    text, isActive)]
      /\ IF status # 200
         THEN UNCHANGED <<heroSections, heroIds>>
         ELSE /\ pushed => heroIds < MaxHeroIds
              /\ heroSections' = [heroSections EXCEPT ![t] = hs]
              /\ heroIds' = IF pushed THEN heroIds + 1 ELSE heroIds
      /\ files' = IF ctx.status = 200 /\ WebsiteExists(t)
                  THEN UpsertHeroCleanup(files, heroSections[t],
                                         Get(page, ""), image)
                  ELSE files
      /\ UNCHANGED <<users, websites, issued, held, content, fileIds, pending,
                     inbox, inflight>>

\* DELETE /websites/:websiteId/hero-sections/:heroId
deleteHeroSection(cred, t, heroId) ==
  LET ctx == Chain(cred, Operators, TRUE, t)
      IsHero == {heroSections[t][i] :
                   i \in {j \in 1..Len(heroSections[t]) :
                            heroSections[t][j].id = heroId}}
      Others(h) == h.id # heroId
      status == IF ctx.status # 200 THEN ctx.status
                ELSE IF ~WebsiteExists(t) THEN 404
                ELSE IF FindIndex(heroSections[t], IsHero) = 0 THEN 404
                ELSE 200
  IN  /\ resp' = Reply("deleteHeroSection", cred, Operators, status,
                       ctx.user, t)
      /\ IF status # 200
         THEN UNCHANGED <<heroSections, files>>
         ELSE /\ files' = deleteImageFile(
                             files,
                             heroSections[t][FindIndex(heroSections[t],
                                                       IsHero)].image)
              /\ heroSections' = [heroSections EXCEPT
                                    ![t] = SelectSeq(heroSections[t], Others)]
      /\ UNCHANGED <<users, websites, heroIds, issued, held,
                     content, fileIds, pending, inbox, inflight>>

\* ------------------------------------------------------------ site settings
\* The cleanup that unlinks the old file without comparing it with the new
\* value.
ReplacedFileCleanup_NoCompare(fs, old, new) ==
  IF new # Absent /\ old # "" THEN deleteImageFile(fs, old) ELSE fs

\* The files left after the cleanup of an image field that holds old and
\* that the body sets to new: the old file is unlinked if the body carries
\* the field, the old value is not empty and the new value is another one.
ReplacedFileCleanup(fs, old, new) ==
  IF new # Absent /\ old # "" /\ old # Get(new, "")
  THEN deleteImageFile(fs, old)
  ELSE fs

\* PUT /websites/:websiteId/site-settings
updateSiteSettings(cred, t, logo, footerLogo) ==
  LET ctx == Chain(cred, Operators, TRUE, t)
      status == IF ctx.status # 200 THEN ctx.status
                ELSE IF ~WebsiteExists(t) THEN 404
                ELSE 200
      afterLogo == ReplacedFileCleanup(files, websites[t].logo, logo)
  IN  /\ resp' = [Reply("updateSiteSettings", cred, Operators, status,
                        ctx.user, t)
                    EXCEPT !.body = <<logo, footerLogo>>]
      /\ IF status # 200
         THEN UNCHANGED <<websites, files>>
         ELSE /\ files' = ReplacedFileCleanup(afterLogo,
                                              websites[t].footerLogo,
                                              footerLogo)
              /\ websites' = [websites EXCEPT
                                ![t].logo = Get(logo, @),
                                ![t].footerLogo = Get(footerLogo, @),
                                ![t].defined = @ \cup {"siteSettings"}]
      /\ UNCHANGED <<users, heroSections, heroIds, content, fileIds, issued,
                     held, pending, inbox, inflight>>

\* ------------------------------------------------------------ our story
MaxStoryImages == 20

\* PUT /websites/:websiteId/our-story: the files of the images that the new
\* list no longer includes are unlinked before website.save().
updateOurStory(cred, t, images) ==
  LET ctx == Chain(cred, Operators, TRUE, t)
      new == Get(images, <<>>)
      status == IF ctx.status # 200 THEN ctx.status
                ELSE IF ~WebsiteExists(t) THEN 404
                ELSE IF images # Absent /\ Len(new) > MaxStoryImages THEN 400
                ELSE 200
      Removed(img) == \A i \in 1..Len(new) : new[i] # img
  IN  /\ resp' = [Reply("updateOurStory", cred, Operators, status, ctx.user,
                        t)
                    EXCEPT !.body = <<images>>]
      /\ IF status # 200 \/ images = Absent
         THEN UNCHANGED files
         ELSE files' = deleteMultipleImageFiles(
                         files, SelectSeq(websites[t].storyImages, Removed))
      /\ IF status # 200
         THEN UNCHANGED websites
         ELSE websites' = [websites EXCEPT
                             ![t].storyImages = Get(images, @),
                             ![t].defined = @ \cup {"ourStory"}]
      /\ UNCHANGED <<users, heroSections, heroIds, content, fileIds, issued,
                     held, pending, inbox, inflight>>

\* ------------------------------------------------------------ facilities
\* An embedded facility, and the most a tenant may hold.
Facility(id, image, title) == [id |-> id, image |-> image, title |-> title]

MaxFacilities == 6

\* An image URL that is not under the public directory.
ExternalUrl == "https://cdn.example.com/a.jpg"

\* The entries of a sequence of sub-documents whose _id is id.
ById(seq, id) == {seq[i] : i \in {j \in 1..Len(seq) : seq[j].id = id}}

\* addFacility's limit check off by one.
FacilityLimitReached_OffByOne(n) == n > MaxFacilities

\* addFacility's limit check on the number of facilities stored.
FacilityLimitReached(n) == n >= MaxFacilities

\* POST /websites/:websiteId/facilities
addFacility(cred, t, image, title) ==
  LET ctx == Chain(cred, Operators, TRUE, t)
      status == IF ctx.status # 200 THEN ctx.status
                ELSE IF ~WebsiteExists(t) THEN 404
                ELSE IF FacilityLimitReached(Len(facilities[t])) THEN 400
                ELSE 201
  IN  /\ resp' = [Reply("addFacility", cred, Operators, status, ctx.user, t)
                    EXCEPT !.body = <<image, title>>]
      /\ IF status # 201
         THEN UNCHANGED <<facilities, subIds>>
         ELSE /\ subIds < MaxSubIds
              /\ facilities' = [facilities EXCEPT ![t] =
                   Append(@, Facility(subIds + 1, Get(image, ""),
                                      Get(title, "")))]
              /\ subIds' = subIds + 1
      /\ UNCHANGED <<users, websites, heroSections, heroIds, rooms, reviews,
                     storage, issued, held, pending, inbox, inflight>>

\* PUT /websites/:websiteId/facilities/:facilityId: the old image file is
\* unlinked when the body carries an image that differs from it.
updateFacility(cred, t, facilityId, image, title) ==
  LET ctx == Chain(cred, Operators, TRUE, t)
      idx == FindIndex(facilities[t], ById(facilities[t], facilityId))
      status == IF ctx.status # 200 THEN ctx.status
                ELSE IF ~WebsiteExists(t) THEN 404
                ELSE IF idx = 0 THEN 404
                ELSE 200
      old == facilities[t][idx]
  IN  /\ resp' = [Reply("updateFacility", cred, Operators, status, ctx.user, t)
                    EXCEPT !.body = <<facilityId, image, title>>]
      /\ IF status # 200
         THEN UNCHANGED <<facilities, files>>
         ELSE /\ files' = IF image # Absent /\ old.image # ""
                             /\ old.image # Get(image, "")
                          THEN deleteImageFile(files, old.image)
                          ELSE files
              /\ facilities' = [facilities EXCEPT ![t][idx] =
                   [@ EXCEPT !.image = Get(image, @),
                             !.title = Get(title, @)]]
      /\ UNCHANGED <<users, websites, heroSections, heroIds, rooms, reviews,
                     subIds, fileIds, issued, held, pending, inbox, inflight>>

\* DELETE /websites/:websiteId/facilities/:facilityId
deleteFacility(cred, t, facilityId) ==
  LET ctx == Chain(cred, Operators, TRUE, t)
      idx == FindIndex(facilities[t], ById(facilities[t], facilityId))
      Others(f) == f.id # facilityId
      status == IF ctx.status # 200 THEN ctx.status
                ELSE IF ~WebsiteExists(t) THEN 404
                ELSE IF idx = 0 THEN 404
                ELSE 200
  IN  /\ resp' = [Reply("deleteFacility", cred, Operators, status, ctx.user, t)
                    EXCEPT !.body = <<facilityId>>]
      /\ IF status # 200
         THEN UNCHANGED <<facilities, files>>
         ELSE /\ files' = deleteImageFile(files, facilities[t][idx].image)
              /\ facilities' = [facilities EXCEPT ![t] = SelectSeq(@, Others)]
      /\ UNCHANGED <<users, websites, heroSections, heroIds, rooms, reviews,
                     subIds, fileIds, issued, held, pending, inbox, inflight>>

\* ------------------------------------------------------------ rooms
\* An embedded room, and the most detail images a request may carry.
Room(id, mainImage, detailImages, isAvailable) ==
  [id |-> id, mainImage |-> mainImage, detailImages |-> detailImages,
   isAvailable |-> isAvailable]

MaxDetailImages == 10

\* The check of the number of detail images a body carries.
TooManyDetailImages(detailImages) ==
  detailImages # Absent /\ Len(Get(detailImages, <<>>)) > MaxDetailImages

\* POST /websites/:websiteId/rooms
addRoom(cred, t, mainImage, detailImages, isAvailable) ==
  LET ctx == Chain(cred, Operators, TRUE, t)
      status == IF ctx.status # 200 THEN ctx.status
                ELSE IF ~WebsiteExists(t) THEN 404
                ELSE IF TooManyDetailImages(detailImages) THEN 400
                ELSE 201
  IN  /\ resp' = [Reply("addRoom", cred, Operators, status, ctx.user, t)
                    EXCEPT !.body = <<NoId, mainImage, detailImages,
                                      isAvailable>>]
      /\ IF status # 201
         THEN UNCHANGED <<rooms, subIds>>
         ELSE /\ subIds < MaxSubIds
              /\ rooms' = [rooms EXCEPT ![t] =
                   Append(@, Room(subIds + 1, Get(mainImage, ""),
                                  Get(detailImages, <<>>),
                                  Get(isAvailable, TRUE)))]
              /\ subIds' = subIds + 1
      /\ UNCHANGED <<users, websites, heroSections, heroIds, facilities,
                     reviews, storage, issued, held, pending, inbox, inflight>>

\* The files left after updateRoom's cleanup of a replaced main image.
MainImageCleanup(fs, room, mainImage) ==
  IF mainImage # Absent /\ room.mainImage # ""
     /\ room.mainImage # Get(mainImage, "")
  THEN deleteImageFile(fs, room.mainImage)
  ELSE fs

\* The files left after updateRoom's cleanup of the detail images that the
\* new list no longer includes.
DetailImagesCleanup(fs, room, detailImages) ==
  LET new == Get(detailImages, <<>>)
      Removed(img) == \A i \in 1..Len(new) : new[i] # img
  IN  IF detailImages = Absent THEN fs
      ELSE deleteMultipleImageFiles(fs, SelectSeq(room.detailImages, Removed))

\* PUT /websites/:websiteId/rooms/:roomId: the fields of the body are
\* applied in the order of the handler, the main image (with its cleanup)
\* before the check of the detail images.
updateRoom(cred, t, roomId, mainImage, detailImages, isAvailable) ==
  LET ctx == Chain(cred, Operators, TRUE, t)
      idx == FindIndex(rooms[t], ById(rooms[t], roomId))
      status == IF ctx.status # 200 THEN ctx.status
                ELSE IF ~WebsiteExists(t) THEN 404
                ELSE IF idx = 0 THEN 404
                ELSE IF TooManyDetailImages(detailImages) THEN 400
                ELSE 200
      room == rooms[t][idx]
      afterMain == MainImageCleanup(files, room, mainImage)
  IN  /\ resp' = [Reply("updateRoom", cred, Operators, status, ctx.user, t)
                    EXCEPT !.body = <<roomId, mainImage, detailImages,
                                      isAvailable>>]
      /\ IF status = 200
         THEN /\ files' = DetailImagesCleanup(afterMain, room, detailImages)
              /\ rooms' = [rooms EXCEPT ![t][idx] =
                   [@ EXCEPT !.mainImage = Get(mainImage, @),
                             !.detailImages = Get(detailImages, @),
                             !.isAvailable = Get(isAvailable, @)]]
         ELSE IF status = 400
         THEN files' = afterMain /\ UNCHANGED rooms
         ELSE UNCHANGED <<rooms, files>>
      /\ UNCHANGED <<users, websites, heroSections, heroIds, facilities,
                     reviews, subIds, fileIds, issued, held, pending,
                     inbox, inflight>>

\* updateRoom followed await by await, for requests that overlap. The save
\* that refuses a document whose room another request changed since it was
\* loaded.
SaveStatus_Versioned(loaded) ==
  LET idx == FindIndex(rooms[loaded.target],
                       ById(rooms[loaded.target], loaded.roomId))
  IN  IF ~WebsiteExists(loaded.target) \/ idx = 0 THEN 500
      ELSE IF rooms[loaded.target][idx] # loaded.room THEN 500
      ELSE 200

\* The status of website.save() for a loaded request: the document and the
\* room are still stored; nothing compares them with what was loaded.
SaveStatus(loaded) ==
  LET idx == FindIndex(rooms[loaded.target],
                       ById(rooms[loaded.target], loaded.roomId))
  IN  IF ~WebsiteExists(loaded.target) \/ idx = 0 THEN 500 ELSE 200

\* The request of client k passes the gates and awaits Website.findById;
\* it keeps the room as loaded, or responds 404 ...
updateRoom_load(k, cred, t, roomId, mainImage, isAvailable) ==
  LET ctx == Chain(cred, Operators, TRUE, t)
      idx == FindIndex(rooms[t], ById(rooms[t], roomId))
      status == IF ctx.status # 200 THEN ctx.status
                ELSE IF ~WebsiteExists(t) THEN 404
                ELSE IF idx = 0 THEN 404
                ELSE 200
      request == [pc |-> "loaded", cred |-> cred, user |-> ctx.user,
                  target |-> t, roomId |-> roomId, mainImage |-> mainImage,
                  isAvailable |-> isAvailable, room |-> <<>>, status |-> 0]
  IN  /\ inflight[k].pc # "loaded"
      /\ IF status # 200
         THEN /\ inflight' = [inflight EXCEPT ![k] =
                               [request EXCEPT !.pc = "done",
                                               !.status = status]]
              /\ resp' = [Reply("updateRoom", cred, Operators, status,
                                ctx.user, t)
                            EXCEPT !.body = <<roomId, mainImage, Absent,
                                              isAvailable>>]
         ELSE /\ inflight' = [inflight EXCEPT ![k] =
                               [request EXCEPT !.room = rooms[t][idx]]]
              /\ UNCHANGED resp
      /\ UNCHANGED <<users, websites, heroSections, heroIds, content, storage,
                     issued, held, pending, inbox>>

\* ... then changes the loaded room, unlinking the main image it replaces,
\* and awaits website.save(), which writes the changed fields of the room;
\* then it responds.
updateRoom_save(k) ==
  LET loaded == inflight[k]
      t == loaded.target
      idx == FindIndex(rooms[t], ById(rooms[t], loaded.roomId))
      status == SaveStatus(loaded)
  IN  /\ loaded.pc = "loaded"
      /\ files' = MainImageCleanup(files, loaded.room, loaded.mainImage)
      /\ IF status # 200
         THEN UNCHANGED rooms
         ELSE rooms' = [rooms EXCEPT ![t][idx] =
                          [@ EXCEPT !.mainImage = Get(loaded.mainImage, @),
                                    !.isAvailable =
                                      Get(loaded.isAvailable, @)]]
      /\ inflight' = [inflight EXCEPT ![k] =
                        [loaded EXCEPT !.pc = "done", !.status = status]]
      /\ resp' = [Reply("updateRoom", loaded.cred, Operators, status,
                        loaded.user, t)
                    EXCEPT !.body = <<loaded.roomId, loaded.mainImage, Absent,
                                      loaded.isAvailable>>]
      /\ UNCHANGED <<users, websites, heroSections, heroIds, facilities,
                     reviews, subIds, fileIds, issued, held, pending, inbox>>

\* DELETE /websites/:websiteId/rooms/:roomId
deleteRoom(cred, t, roomId) ==
  LET ctx == Chain(cred, Operators, TRUE, t)
      idx == FindIndex(rooms[t], ById(rooms[t], roomId))
      Others(r) == r.id # roomId
      status == IF ctx.status # 200 THEN ctx.status
                ELSE IF ~WebsiteExists(t) THEN 404
                ELSE IF idx = 0 THEN 404
                ELSE 200
  IN  /\ resp' = [Reply("deleteRoom", cred, Operators, status, ctx.user, t)
                    EXCEPT !.body = <<roomId>>]
      /\ IF status # 200
         THEN UNCHANGED <<rooms, files>>
         ELSE /\ files' = deleteMultipleImageFiles(
                             deleteImageFile(files, rooms[t][idx].mainImage),
                             rooms[t][idx].detailImages)
              /\ rooms' = [rooms EXCEPT ![t] = SelectSeq(@, Others)]
      /\ UNCHANGED <<users, websites, heroSections, heroIds, facilities,
                     reviews, subIds, fileIds, issued, held, pending,
                     inbox, inflight>>

\* ------------------------------------------------------------ reviews
\* An embedded review.
Review(id, avatar, rating) == [id |-> id, avatar |-> avatar, rating |-> rating]

\* The rating a body without rating leaves undefined.
NoRating == 0

\* Schema validation of a review at website.save(): rating is required and
\* lies between 1 and 5.
ReviewValid(r) == r.rating # NoRating /\ r.rating >= 1 /\ r.rating <= 5

\* POST /websites/:websiteId/reviews: a review that fails validation makes
\* save() throw a ValidationError, which carries no status code.
addReview(cred, t, avatar, rating) ==
  LET ctx == Chain(cred, Operators, TRUE, t)
      new == Review(subIds + 1, Get(avatar, ""), Get(rating, NoRating))
      status == IF ctx.status # 200 THEN ctx.status
                ELSE IF ~WebsiteExists(t) THEN 404
                ELSE IF ~ReviewValid(new) THEN 500
                ELSE 201
  IN  /\ resp' = [Reply("addReview", cred, Operators, status, ctx.user, t)
                    EXCEPT !.body = <<NoId, avatar, rating>>]
      /\ IF status # 201
         THEN UNCHANGED <<reviews, subIds>>
         ELSE /\ subIds < MaxSubIds
              /\ reviews' = [reviews EXCEPT ![t] = Append(@, new)]
              /\ subIds' = subIds + 1
      /\ UNCHANGED <<users, websites, heroSections, heroIds, rooms, facilities,
                     storage, issued, held, pending, inbox, inflight>>

\* PUT /websites/:websiteId/reviews/:reviewId: the old avatar file is
\* unlinked, before save() validates, when the body carries another avatar.
updateReview(cred, t, reviewId, avatar, rating) ==
  LET ctx == Chain(cred, Operators, TRUE, t)
      idx == FindIndex(reviews[t], ById(reviews[t], reviewId))
      old == reviews[t][idx]
      new == [old EXCEPT !.avatar = Get(avatar, @),
                         !.rating = Get(rating, @)]
      status == IF ctx.status # 200 THEN ctx.status
                ELSE IF ~WebsiteExists(t) THEN 404
                ELSE IF idx = 0 THEN 404
                ELSE IF ~ReviewValid(new) THEN 500
                ELSE 200
  IN  /\ resp' = [Reply("updateReview", cred, Operators, status, ctx.user, t)
                    EXCEPT !.body = <<reviewId, avatar, rating>>]
      /\ files' = IF status \in {200, 500} /\ avatar # Absent
                     /\ old.avatar # "" /\ old.avatar # Get(avatar, "")
                  THEN deleteImageFile(files, old.avatar)
                  ELSE files
      /\ IF status # 200
         THEN UNCHANGED reviews
         ELSE reviews' = [reviews EXCEPT ![t][idx] = new]
      /\ UNCHANGED <<users, websites, heroSections, heroIds, rooms, facilities,
                     subIds, fileIds, issued, held, pending, inbox, inflight>>

\* DELETE /websites/:websiteId/reviews/:reviewId
deleteReview(cred, t, reviewId) ==
  LET ctx == Chain(cred, Operators, TRUE, t)
      idx == FindIndex(reviews[t], ById(reviews[t], reviewId))
      Others(r) == r.id # reviewId
      status == IF ctx.status # 200 THEN ctx.status
                ELSE IF ~WebsiteExists(t) THEN 404
                ELSE IF idx = 0 THEN 404
                ELSE 200
  IN  /\ resp' = [Reply("deleteReview", cred, Operators, status, ctx.user, t)
                    EXCEPT !.body = <<reviewId>>]
      /\ IF status # 200
         THEN UNCHANGED <<reviews, files>>
         ELSE /\ files' = deleteImageFile(files, reviews[t][idx].avatar)
              /\ reviews' = [reviews EXCEPT ![t] = SelectSeq(@, Others)]
      /\ UNCHANGED <<users, websites, heroSections, heroIds, rooms, facilities,
                     subIds, fileIds, issued, held, pending, inbox, inflight>>

\* ------------------------------------------------------------ public read
\* website._id.toString(), which a caller may try as a public identifier.
ObjectIdString(w) == "oid-" \o ToString(w)

\* The lookup that does not ask for an active tenant.
PublicLookup_AnyStatus(uniqueId) ==
  LET found == {w \in WebsiteIds :
                  WebsiteExists(w) /\ websites[w].uniqueId = uniqueId}
  IN  IF found = {} THEN NoId ELSE CHOOSE w \in found : TRUE

\* Website.findOne({uniqueId, isActive: true}), NoId when it finds none.
PublicLookup(uniqueId) ==
  LET found == {w \in WebsiteIds :
                  /\ WebsiteExists(w)
                  /\ websites[w].uniqueId = uniqueId
                  /\ websites[w].isActive}
  IN  IF found = {} THEN NoId ELSE CHOOSE w \in found : TRUE

\* The rooms returned without the filter.
PublicRooms_Unfiltered(rs) == rs

\* website.rooms.filter(r => r.isAvailable)
PublicRooms(rs) ==
  LET Available(r) == r.isAvailable
  IN  SelectSeq(rs, Available)

\* website.heroSections.filter(h => h.isActive)
PublicHeroSections(hs) ==
  LET Active(h) == h.isActive
  IN  SelectSeq(hs, Active)

\* website.reviews.reduce((sum, review) => sum + review.rating, 0)
RECURSIVE SumRatings(_)
SumRatings(rs) ==
  IF rs = <<>> THEN 0 ELSE SumRatings(SubSeq(rs, 1, Len(rs) - 1))
                           + rs[Len(rs)].rating

\* The average with the quotient rounded down to an integer.
AverageRating_RoundedDown(rs) ==
  IF Len(rs) > 0 THEN Ratio(SumRatings(rs) \div Len(rs), 1) ELSE Ratio(0, 1)

\* The average rating: the sum of the ratings over their number, 0 when
\* there is no review.
AverageRating(rs) ==
  IF Len(rs) > 0 THEN Ratio(SumRatings(rs), Len(rs)) ELSE Ratio(0, 1)

\* The data with the website object replaced by the _id and the core fields
\* of the document as stored.
PublicBody_WholeDocument(id, doc, rs, hs, fs, rv) ==
  PublicData([id |-> id, uniqueId |-> doc.uniqueId, name |-> doc.name,
              domain |-> doc.domain, isActive |-> doc.isActive,
              assignedAdmin |-> doc.assignedAdmin],
             PublicRooms(rs), PublicHeroSections(hs), fs, rv,
             Len(PublicRooms(rs)), Len(fs), AverageRating(rv))

\* The data res.json sends, built from the tenant document found: id is its
\* _id, doc its core fields and rs, hs, fs, rv its embedded rooms, hero
\* sections, facilities and reviews.
PublicBody(id, doc, rs, hs, fs, rv) ==
  PublicData(PublicWebsite(doc.uniqueId, doc.name, doc.domain, doc.isActive),
             PublicRooms(rs), PublicHeroSections(hs), fs, rv,
             Len(PublicRooms(rs)), Len(fs), AverageRating(rv))

\* The status and the data a public read of uniqueId answers in this state.
PublicResponse(uniqueId) ==
  LET w == PublicLookup(uniqueId)
  IN  IF w = NoId
      THEN [status |-> 404, data |-> NoPublic]
      ELSE [status |-> 200,
            data |-> PublicBody(w, websites[w], rooms[w], heroSections[w],
                                facilities[w], reviews[w])]

\* GET /public/website/:uniqueId (no authentication)
getWebsiteByUniqueId(uniqueId) ==
  LET w == PublicLookup(uniqueId)
      answer == PublicResponse(uniqueId)
      status == answer.status
  IN  /\ resp' = [Reply("getWebsiteByUniqueId", NoCred, {}, status, NoId, w)
                    EXCEPT !.body = <<uniqueId>>,
                           !.public = answer.data]
      /\ UNCHANGED <<users, websites, heroSections, heroIds, content, storage,
                     issued, held, pending, inbox, inflight>>

\* ------------------------------------------------------------ contact
\* POST /public/website/:websiteId/contact (no authentication): complete is
\* whether the body carries email and message.
submitContactMessage(uniqueId, complete) ==
  LET w == PublicLookup(uniqueId)
      status == IF ~complete THEN 400
                ELSE IF w = NoId THEN 404
                ELSE 201
  IN  /\ resp' = [Reply("submitContactMessage", NoCred, {}, status, NoId, w)
                    EXCEPT !.body = <<uniqueId>>]
      /\ IF status # 201
         THEN UNCHANGED inbox
         ELSE /\ msgIds < MaxMessages
              /\ messages' = [messages EXCEPT ![msgIds + 1] =
                                [status |-> "live", websiteId |-> w,
                                 isRead |-> FALSE]]
              /\ msgIds' = msgIds + 1
      /\ UNCHANGED <<users, websites, heroSections, heroIds, content, storage,
                     issued, held, pending, inflight>>

\* PATCH /websites/:websiteId/contact-messages/:messageId/toggle-read: the
\* gates look at :websiteId, the handler at :messageId alone.
toggleMessageRead(cred, t, messageId) ==
  LET ctx == Chain(cred, Operators, TRUE, t)
      status == IF ctx.status # 200 THEN ctx.status
                ELSE IF ~MessageExists(messageId) THEN 404
                ELSE 200
  IN  /\ resp' = [Reply("toggleMessageRead", cred, Operators, status,
                        ctx.user, t)
                    EXCEPT !.body = <<messageId>>]
      /\ IF status # 200
         THEN UNCHANGED messages
         ELSE messages' = [messages EXCEPT ![messageId].isRead = ~@]
      /\ UNCHANGED <<users, websites, heroSections, heroIds, content, storage,
                     issued, held, pending, msgIds, inflight>>

\* DELETE /websites/:websiteId/contact-messages/:messageId
deleteContactMessage(cred, t, messageId) ==
  LET ctx == Chain(cred, Operators, TRUE, t)
      status == IF ctx.status # 200 THEN ctx.status
                ELSE IF ~MessageExists(messageId) THEN 404
                ELSE 200
  IN  /\ resp' = [Reply("deleteContactMessage", cred, Operators, status,
                        ctx.user, t)
                    EXCEPT !.body = <<messageId>>]
      /\ IF status # 200
         THEN UNCHANGED messages
         ELSE messages' = [messages EXCEPT ![messageId] = GoneMessage]
      /\ UNCHANGED <<users, websites, heroSections, heroIds, content, storage,
                     issued, held, pending, msgIds, inflight>>

\* ------------------------------------------------------------ uploads
\* POST /upload/website-image: hasFile tells whether the multipart body
\* carries a file, w is the body's websiteId (NoId when it has none).
uploadWebsiteImage(cred, hasFile, w) ==
  LET ctx == Chain(cred, Operators, FALSE, NoId)
      status == IF ctx.status # 200 THEN ctx.status
                ELSE IF ~hasFile THEN 400
                ELSE IF w = NoId THEN 400
                ELSE IF ~WebsiteExists(w) THEN 404
                ELSE 200
      url == saveImageBuffer(websites[w].name, fileIds + 1)
  IN  /\ resp' = [Reply("uploadWebsiteImage", cred, Operators, status,
                        ctx.user, w)
                    EXCEPT !.url = IF status = 200 THEN url ELSE ""]
      /\ IF status # 200
         THEN UNCHANGED storage
         ELSE /\ fileIds < MaxFiles
              /\ files' = files \cup {StoredFile(url, w)}
              /\ fileIds' = fileIds + 1
      /\ UNCHANGED <<users, websites, heroSections, heroIds, content, issued,
                     held, pending, inbox, inflight>>

\* ------------------------------------------------------------ bare gates
\* authorize(...roles) applied to a request context whose user is u, NoId
\* when the context has no user.
Authorize(roles, u) ==
  /\ resp' = Reply("authorize", NoCred, roles,
                   authorize(roles, Ctx(200, u, NoId)), u, NoId)
  /\ UNCHANGED <<users, websites, heroSections, heroIds, issued, held,
                 content, storage, pending, inbox, inflight>>

\* authenticate, then checkWebsiteAccess, on a request with the given path
\* parameters and body websiteId (any of them NoId when absent).
CheckWebsiteAccess(cred, pWebsiteId, pId, bWebsiteId) ==
  LET w == ResolveWebsiteId(pWebsiteId, pId, bWebsiteId)
      ctx == Chain(cred, {}, TRUE, w)
  IN  /\ resp' = [Reply("checkWebsiteAccess", cred, {}, ctx.status, ctx.user, w)
                    EXCEPT !.params = <<pWebsiteId, pId, bWebsiteId>>]
      /\ UNCHANGED <<users, websites, heroSections, heroIds, issued, held,
                     content, storage, pending, inbox, inflight>>

\* ------------------------------------------------------------ specifications
Init ==
  /\ users = [u \in UserIds |-> NoUser]
  /\ websites = [w \in WebsiteIds |-> NoWebsite]
  /\ heroSections = [w \in WebsiteIds |-> <<>>]
  /\ heroIds = 0
  /\ issued = [u \in UserIds |-> 0]
  /\ held = [u \in UserIds |-> NoToken]
  /\ rooms = [w \in WebsiteIds |-> <<>>]
  /\ facilities = [w \in WebsiteIds |-> <<>>]
  /\ reviews = [w \in WebsiteIds |-> <<>>]
  /\ subIds = 0
  /\ files = {}
  /\ fileIds = 0
  /\ pending = NoDelete
  /\ messages = [m \in MessageIds |-> NoMessage]
  /\ msgIds = 0
  /\ inflight = [k \in Clients |-> NoRequest]
  /\ resp = Reply("none", NoCred, {}, 0, NoId, NoId)

\* Values a request body can carry.
OptRole == Opt(Roles)
OptBool == Opt(BOOLEAN)

\* The name and the domains of the tenants where a specification varies
\* neither.
SiteName == "Inn"
SiteDomain(d) == "site" \o ToString(d) \o ".com"

\* Credentials that pass verification.
ValidCreds == {c \in Creds : c.kind = "ok"}

\* Who registers: the first account registers as super_admin, the others
\* with the default role.
Registrations ==
  {<<e, r>> \in UserIds \X OptRole :
     IF e = 1 THEN r = Some("super_admin") ELSE r = Absent}

\* Tenancy: identities, tenants, the admin <-> tenant assignment and the
\* tenant-scoped routes.
Next ==
  \/ \E x \in Registrations : register(x[1], x[2])
  \/ \E c \in ValidCreds, e \in UserIds :
        updateUser(c, e, Absent, Some(NoId), Absent, Absent)
  \/ \E c \in ValidCreds, d \in WebsiteIds :
        createWebsite(c, d, SiteName, SiteDomain(d))
  \/ \E c \in ValidCreds, t \in WebsiteIds : deleteWebsite(c, t)
  \/ \E c \in ValidCreds, t \in WebsiteIds, a \in {NoId} \cup UserIds :
        assignAdmin(c, t, a)
  \/ \E c \in ValidCreds, t \in WebsiteIds :
        updateWebsite(c, t, Absent, Absent, Some(FALSE))
  \/ \E c \in ValidCreds : getWebsites(c)

Spec == Init /\ [][Next]_vars

\* The tenant-scope gate: assignments made and changed by a super_admin,
\* and requests through the gate with every combination of path parameters
\* and body websiteId.
OptId == {NoId} \cup WebsiteIds

\* <<:websiteId, :id, body websiteId>> of the requests sent through the gate:
\* at most two of the three present, and then naming different tenants.
RequestShapes ==
  {p \in OptId \X OptId \X OptId :
     /\ \E i \in 1..3 : p[i] = NoId
     /\ \A i, j \in 1..3 : (i # j /\ p[i] # NoId) => p[i] # p[j]}

NextScope ==
  \/ \E x \in Registrations : register(x[1], x[2])
  \/ \E c \in ValidCreds, d \in WebsiteIds :
        createWebsite(c, d, SiteName, SiteDomain(d))
  \/ \E c \in ValidCreds, t \in WebsiteIds : deleteWebsite(c, t)
  \/ \E c \in ValidCreds, t \in WebsiteIds, a \in {NoId} \cup UserIds :
        assignAdmin(c, t, a)
  \/ \E c \in ValidCreds, t \in WebsiteIds : getWebsite(c, t)
  \/ \E c \in ValidCreds, p \in RequestShapes :
        CheckWebsiteAccess(c, p[1], p[2], p[3])

SpecScope == Init /\ [][NextScope]_vars

\* The authentication and role gates: accounts that get deactivated and
\* deleted, every kind of credential, and the routes behind
\* authorize('super_admin').
NextGates ==
  \/ \E x \in Registrations : x[1] < MaxUsers /\ register(x[1], x[2])
  \/ \E c \in Creds, e \in UserIds : toggleUserStatus(c, e)
  \/ \E c \in ValidCreds, e \in UserIds : deleteUser(c, e)
  \/ \E c \in ValidCreds :
        createUser(c, MaxUsers, Absent, Absent, Absent, Absent)
  \/ \E c \in ValidCreds, e \in UserIds :
        updateUser(c, e, Absent, Absent, Absent, Some(FALSE))
  \/ \E c \in ValidCreds, e \in UserIds :
        updateUserPermissions(c, e, Some({}), Absent)
  \/ \E c \in ValidCreds : createWebsite(c, 1, SiteName, SiteDomain(1))
  \/ \E c \in ValidCreds : deleteWebsite(c, 1)
  \/ \E c \in ValidCreds, a \in UserIds : assignAdmin(c, 1, a)
  \/ \E c \in Creds : getWebsites(c)
  \/ \E roles \in {SuperOnly, Operators},
        u \in {NoId} \cup {x \in UserIds : UserExists(x)} : Authorize(roles, u)

SpecGates == Init /\ [][NextGates]_vars

\* Sessions: accounts created by registration and by a super_admin, logins
\* with right and wrong passwords, logout and refresh.
NextSession ==
  \/ \E x \in Registrations : x[1] < MaxUsers /\ register(x[1], x[2])
  \/ \E c \in ValidCreds, b \in {Absent, Some(FALSE)} :
        createUser(c, MaxUsers, Absent, Absent, Absent, b)
  \/ \E c \in ValidCreds : createWebsite(c, 1, SiteName, SiteDomain(1))
  \/ \E c \in ValidCreds, a \in {NoId} \cup UserIds : assignAdmin(c, 1, a)
  \/ \E e \in UserIds, pwOk \in BOOLEAN : login(e, pwOk)
  \/ \E c \in ValidCreds : logout(c)
  \/ \E k \in {"missing", "badsig", "ok"}, u \in UserIds, n \in 1..MaxIssue :
        n <= issued[u] /\ refreshToken(k, u, n)

SpecSession == Init /\ [][NextSession]_vars

\* Hero sections of one tenant, managed by a super_admin.
NextHero ==
  \/ register(1, Some("super_admin"))
  \/ \E c \in ValidCreds : createWebsite(c, 1, SiteName, SiteDomain(1))
  \/ \E c \in ValidCreds, page \in Opt(HeroPageType \cup {BogusPage}),
        image \in Opt(Images), text \in Opt(Texts \cup {TooLong}),
        isActive \in OptBool :
        upsertHeroSection(c, 1, page, image, text, isActive)
  \/ \E c \in ValidCreds, h \in 1..MaxHeroIds : deleteHeroSection(c, 1, h)

SpecHero == Init /\ [][NextHero]_vars

\* Hero sections whose images are uploaded files.
StoredUrls == {f.url : f \in files}

NextHeroFiles ==
  \/ register(1, Some("super_admin"))
  \/ \E c \in ValidCreds : createWebsite(c, 1, SiteName, SiteDomain(1))
  \/ \E c \in ValidCreds, w \in {NoId, 1} : uploadWebsiteImage(c, TRUE, w)
  \/ \E c \in ValidCreds, page \in HeroPageType, image \in Opt(StoredUrls),
        text \in Opt(Texts), isActive \in {Absent, Some(FALSE)} :
        upsertHeroSection(c, 1, Some(page), image, text, isActive)

SpecHeroFiles == Init /\ [][NextHeroFiles]_vars

\* Facilities of one tenant, added until the limit and beyond, changed and
\* removed.
NextFacilities ==
  \/ register(1, Some("super_admin"))
  \/ \E c \in ValidCreds : createWebsite(c, 1, SiteName, SiteDomain(1))
  \/ \E c \in ValidCreds : addFacility(c, 1, Absent, Some("Pool"))
  \/ \E c \in ValidCreds, f \in 1..MaxSubIds :
        updateFacility(c, 1, f, Some(ExternalUrl), Absent)
  \/ \E c \in ValidCreds, f \in 1..MaxSubIds : deleteFacility(c, 1, f)

SpecFacilities == Init /\ [][NextFacilities]_vars

\* Rooms of one tenant whose images are uploaded files, with lists of
\* detail images up to and beyond the limit.
MaxRooms == 2

DetailLists ==
  {<<>>, [i \in 1..MaxDetailImages |-> ExternalUrl],
   [i \in 1..(MaxDetailImages + 1) |-> ExternalUrl]}
    \cup {<<u>> : u \in StoredUrls}

NextRooms ==
  \/ register(1, Some("super_admin"))
  \/ \E c \in ValidCreds : createWebsite(c, 1, SiteName, SiteDomain(1))
  \/ \E c \in ValidCreds : uploadWebsiteImage(c, TRUE, 1)
  \/ \E c \in ValidCreds, mainImage \in Opt(StoredUrls),
        detailImages \in Opt(DetailLists) :
        /\ subIds < MaxRooms
        /\ addRoom(c, 1, mainImage, detailImages, Absent)
  \/ \E c \in ValidCreds, r \in 1..MaxRooms, mainImage \in Opt(StoredUrls),
        detailImages \in Opt(DetailLists) :
        updateRoom(c, 1, r, mainImage, detailImages, Absent)
  \/ \E c \in ValidCreds, r \in 1..MaxRooms : deleteRoom(c, 1, r)

SpecRooms == Init /\ [][NextRooms]_vars

\* Deleting tenants that have admins and stored files, the delete request
\* followed await by await; the requests are handled one after the other.
Idle == pending.pc \in {"none", "done"}

NextDelete ==
  \/ \E x \in Registrations : Idle /\ x[1] < MaxUsers /\ register(x[1], x[2])
  \/ \E c \in ValidCreds, d \in WebsiteIds :
        Idle /\ createWebsite(c, d, SiteName, SiteDomain(d))
  \/ \E c \in ValidCreds, t \in WebsiteIds, a \in {NoId} \cup UserIds :
        Idle /\ assignAdmin(c, t, a)
  \/ \E c \in ValidCreds, t \in WebsiteIds :
        Idle /\ uploadWebsiteImage(c, TRUE, t)
  \/ \E c \in ValidCreds, t \in WebsiteIds : deleteWebsite_load(c, t)
  \/ deleteWebsite_unassign
  \/ deleteWebsite_folder
  \/ deleteWebsite_remove

SpecDelete == Init /\ [][NextDelete]_vars

\* Stored files of tenants whose names share a folder or change.
SiteNames == {"Inn", "inn!"}
NewName == "Spa"

NextStorage ==
  \/ register(1, Some("super_admin"))
  \/ \E c \in ValidCreds, d \in WebsiteIds, name \in SiteNames :
        createWebsite(c, d, name, SiteDomain(d))
  \/ \E c \in ValidCreds, t \in WebsiteIds :
        updateWebsite(c, t, Some(NewName), Absent, Absent)
  \/ \E c \in ValidCreds, t \in WebsiteIds : uploadWebsiteImage(c, TRUE, t)
  \/ \E c \in ValidCreds, t \in WebsiteIds : deleteWebsite(c, t)

SpecStorage == Init /\ [][NextStorage]_vars

\* Domains of tenants: created, changed, resent, in either case.
Domains == {"inn.com", "INN.com", "spa.com"}

NextDomains ==
  \/ register(1, Some("super_admin"))
  \/ \E c \in ValidCreds, d \in WebsiteIds, domain \in Domains :
        createWebsite(c, d, SiteName, domain)
  \/ \E c \in ValidCreds, t \in WebsiteIds, domain \in Opt(Domains) :
        updateWebsite(c, t, Absent, domain, Absent)
  \/ \E c \in ValidCreds, t \in WebsiteIds : deleteWebsite(c, t)

SpecDomains == Init /\ [][NextDomains]_vars

\* The public read of tenants that are switched off and on, with rooms and
\* hero sections that are shown or hidden.
UniqueIds ==
  {uuidv4(w) : w \in WebsiteIds} \cup {ObjectIdString(w) : w \in WebsiteIds}
    \cup {"uuid-unknown"}

NextPublic ==
  \/ register(1, Some("super_admin"))
  \/ \E c \in ValidCreds, d \in WebsiteIds :
        createWebsite(c, d, SiteName, SiteDomain(d))
  \/ \E c \in ValidCreds, t \in WebsiteIds, isActive \in BOOLEAN :
        updateWebsite(c, t, Absent, Absent, Some(isActive))
  \/ \E c \in ValidCreds, isAvailable \in OptBool :
        subIds < MaxRooms /\ addRoom(c, 1, Absent, Absent, isAvailable)
  \/ \E c \in ValidCreds, r \in 1..MaxRooms, isAvailable \in BOOLEAN :
        updateRoom(c, 1, r, Absent, Absent, Some(isAvailable))
  \/ \E c \in ValidCreds, page \in HeroPageType, isActive \in OptBool :
        upsertHeroSection(c, 1, Some(page), Absent, Absent, isActive)
  \/ \E uniqueId \in UniqueIds : getWebsiteByUniqueId(uniqueId)

SpecPublic == Init /\ [][NextPublic]_vars

\* Reviews of one tenant and the average rating of the public read.
MaxReviews == 3
Ratings == {0, 1, 2, 4, 5, 6}

NextReviews ==
  \/ register(1, Some("super_admin"))
  \/ \E c \in ValidCreds : createWebsite(c, 1, SiteName, SiteDomain(1))
  \/ \E c \in ValidCreds, rating \in Opt(Ratings) :
        subIds < MaxReviews /\ addReview(c, 1, Absent, rating)
  \/ \E c \in ValidCreds, r \in 1..MaxReviews, rating \in Opt(Ratings) :
        updateReview(c, 1, r, Absent, rating)
  \/ \E c \in ValidCreds, r \in 1..MaxReviews : deleteReview(c, 1, r)
  \/ getWebsiteByUniqueId(uuidv4(1))

SpecReviews == Init /\ [][NextReviews]_vars

\* What the public read exposes of tenants that are assigned to admins and
\* receive contact messages.
NextExposure ==
  \/ \E x \in Registrations : x[1] <= 2 /\ register(x[1], x[2])
  \/ \E c \in ValidCreds, d \in WebsiteIds :
        createWebsite(c, d, SiteName, SiteDomain(d))
  \/ \E c \in ValidCreds, t \in WebsiteIds, a \in {NoId, 2} :
        c.tok.userId = 1 /\ assignAdmin(c, t, a)
  \/ \E c \in ValidCreds :
        c.tok.userId = 1 /\ updateWebsite(c, 2, Absent, Absent, Some(FALSE))
  \/ \E c \in ValidCreds :
        /\ c.tok.userId = 1
        /\ subIds < 1
        /\ addRoom(c, 1, Absent, Absent, Absent)
  \/ \E w \in WebsiteIds, complete \in BOOLEAN :
        submitContactMessage(uuidv4(w), complete)
  \/ \E w \in WebsiteIds : getWebsiteByUniqueId(uuidv4(w))

SpecExposure == Init /\ [][NextExposure]_vars

\* Image fields of one tenant set, resent, emptied and replaced: first the
\* hero section and the site settings, then a room (id 1), then a facility
\* (id 2), then a review (id 3), each changed before the next is added.
ImageInputs == Opt(StoredUrls \cup {""})

NextCleanup ==
  \/ register(1, Some("super_admin"))
  \/ \E c \in ValidCreds : createWebsite(c, 1, SiteName, SiteDomain(1))
  \/ \E c \in ValidCreds : uploadWebsiteImage(c, TRUE, 1)
  \/ \E c \in ValidCreds, mainImage \in Opt(StoredUrls) :
        subIds = 0 /\ addRoom(c, 1, mainImage, Absent, Absent)
  \/ \E c \in ValidCreds, image \in Opt(StoredUrls) :
        subIds = 1 /\ addFacility(c, 1, image, Some("pool"))
  \/ \E c \in ValidCreds, avatar \in Opt(StoredUrls) :
        subIds = 2 /\ addReview(c, 1, avatar, Some(5))
  \/ \E c \in ValidCreds, mainImage \in ImageInputs :
        subIds = 1 /\ updateRoom(c, 1, 1, mainImage, Absent, Absent)
  \/ \E c \in ValidCreds, image \in ImageInputs :
        subIds = 2 /\ updateFacility(c, 1, 2, image, Absent)
  \/ \E c \in ValidCreds, avatar \in ImageInputs :
        subIds = 3 /\ updateReview(c, 1, 3, avatar, Absent)
  \/ \E c \in ValidCreds, image \in ImageInputs :
        subIds = 0 /\ upsertHeroSection(c, 1, Some("home"), image, Absent,
                                        Absent)
  \/ \E c \in ValidCreds, logo \in ImageInputs, footerLogo \in ImageInputs :
        subIds = 0 /\ updateSiteSettings(c, 1, logo, footerLogo)

SpecCleanup == Init /\ [][NextCleanup]_vars

\* Two tenants, the admin of the first, and the contact messages visitors
\* leave for both.
NextInbox ==
  \/ \E x \in Registrations : x[1] <= 2 /\ register(x[1], x[2])
  \/ \E c \in ValidCreds, d \in WebsiteIds :
        createWebsite(c, d, SiteName, SiteDomain(d))
  \/ \E c \in ValidCreds : c.tok.userId = 1 /\ assignAdmin(c, 1, 2)
  \/ \E w \in WebsiteIds : submitContactMessage(uuidv4(w), TRUE)
  \/ \E c \in ValidCreds, t \in WebsiteIds, m \in MessageIds :
        toggleMessageRead(c, t, m)
  \/ \E c \in ValidCreds, t \in WebsiteIds, m \in MessageIds :
        deleteContactMessage(c, t, m)

SpecInbox == Init /\ [][NextInbox]_vars

\* Two tenants with folders of their own, the admin of the first, uploads
\* by either identity, and the logo of a tenant set and replaced.
NextFolders ==
  \/ \E x \in Registrations : x[1] <= 2 /\ register(x[1], x[2])
  \/ \E c \in ValidCreds : createWebsite(c, 1, SiteName, SiteDomain(1))
  \/ \E c \in ValidCreds : createWebsite(c, 2, NewName, SiteDomain(2))
  \/ \E c \in ValidCreds : c.tok.userId = 1 /\ assignAdmin(c, 1, 2)
  \/ \E c \in ValidCreds, w \in WebsiteIds : uploadWebsiteImage(c, TRUE, w)
  \/ \E c \in ValidCreds, t \in WebsiteIds, logo \in Opt(StoredUrls) :
        updateSiteSettings(c, t, logo, Absent)

SpecFolders == Init /\ [][NextFolders]_vars

\* Two clients whose updateRoom requests on one room overlap.
NextRace ==
  \/ register(1, Some("super_admin"))
  \/ \E c \in ValidCreds : createWebsite(c, 1, SiteName, SiteDomain(1))
  \/ \E c \in ValidCreds : uploadWebsiteImage(c, TRUE, 1)
  \/ \E c \in ValidCreds :
        subIds < 1 /\ fileIds = 0 /\ addRoom(c, 1, Absent, Absent, Absent)
  \/ \E k \in Clients, c \in ValidCreds, r \in 1..2,
        mainImage \in Opt(StoredUrls), isAvailable \in {Absent, Some(FALSE)} :
        /\ subIds = 1
        /\ fileIds = MaxFiles
        /\ updateRoom_load(k, c, 1, r, mainImage, isAvailable)
  \/ \E k \in Clients : updateRoom_save(k)

SpecRace == Init /\ [][NextRace]_vars

\* ------------------------------------------------------------ properties
\* The stores a request can change.
db == <<users, websites, heroSections, heroIds, rooms, facilities, reviews,
        subIds, files, fileIds, issued>>

\* Routes that are not behind router.use(authenticate), and the bare gate.
PublicOps == {"none", "register", "login", "refresh", "authorize"}

\* Routes behind the tenant-scope gate that carry the tenant in the path.
ScopedOps == {"getWebsite", "updateWebsite", "upsertHeroSection",
              "deleteHeroSection"}

\* Requests that change a tenant's content or fields.
ContentOps == {"updateWebsite", "upsertHeroSection", "deleteHeroSection"}

\* C1: a request of an admin whose websiteId is X on a tenant-scoped route
\* that targets an existing tenant Y # X is answered 403 and changes
\* nothing, and one that targets X is let through.
C1_ScopedAdminIsolated ==
  [][(/\ resp'.op \in ScopedOps
      /\ resp'.user # NoId
      /\ users[resp'.user].role = "admin"
      /\ users[resp'.user].websiteId # NoId
      /\ WebsiteExists(users[resp'.user].websiteId)
      /\ WebsiteExists(resp'.target))
     => IF resp'.target # users[resp'.user].websiteId
        THEN resp'.status = 403 /\ UNCHANGED db
        ELSE resp'.status = 200]_vars

\* C2: the assignment is a bidirectional 1:1 relation: a tenant's
\* assignedAdmin is A exactly when A's websiteId is that tenant, and neither
\* side references a record that does not exist.
C2_AssignmentBijective ==
  /\ \A t \in WebsiteIds, a \in UserIds :
       (WebsiteExists(t) /\ UserExists(a))
         => (websites[t].assignedAdmin = a <=> users[a].websiteId = t)
  /\ \A t \in WebsiteIds :
       (WebsiteExists(t) /\ websites[t].assignedAdmin # NoId)
         => UserExists(websites[t].assignedAdmin)
  /\ \A a \in UserIds :
       (UserExists(a) /\ users[a].websiteId # NoId)
         => WebsiteExists(users[a].websiteId)

\* C3: a successful assignAdmin(T, B) leaves T.assignedAdmin = B and
\* B.websiteId = T, and clears the websiteId of the admin A # B that T was
\* assigned to before.
C3_AssignSwapsBothSides ==
  [][(/\ resp'.op = "assignAdmin"
      /\ resp'.status = 200
      /\ websites'[resp'.target].assignedAdmin # NoId)
     => LET t == resp'.target
            b == websites'[t].assignedAdmin
            a == websites[t].assignedAdmin
        IN  /\ users'[b].websiteId = t
            /\ (a # NoId /\ a # b /\ UserExists(a) /\ users[a].websiteId = t)
                 => users'[a].websiteId = NoId]_vars

AuthenticateRejects(deactivated) ==
  resp'.op \notin PublicOps
  => LET c == resp'.cred
         u == c.tok.userId
         Rejected(status) ==
           resp'.status = status /\ resp'.user = NoId /\ UNCHANGED db
     IN  /\ c.kind \in {"missing", "malformed", "empty", "badsig", "expired"}
              => Rejected(401)
         /\ (c.kind = "ok" /\ ~UserExists(u)) => Rejected(401)
         /\ (c.kind = "ok" /\ UserExists(u) /\ ~users[u].isActive)
              => Rejected(deactivated)

\* C5 (as stated): the Authentication Gate answers 401 and runs no handler
\* when the header is missing or malformed, the token fails verification,
\* its user no longer exists, or its user is deactivated.
C5_AllRejectionsAre401 == [][AuthenticateRejects(401)]_vars

\* C5 (amended): as stated, except that a deactivated user is answered 403.
C5_DeactivatedIs403 == [][AuthenticateRejects(403)]_vars

\* A deactivated user presented a token that verifies and was turned away.
C5_Witness ==
  /\ resp.op \notin PublicOps
  /\ resp.cred.kind = "ok"
  /\ UserExists(resp.cred.tok.userId)
  /\ ~users[resp.cred.tok.userId].isActive
  /\ resp.status = 403

\* What the role gate answers: the given status when the context has no
\* identity, 403 when the identity's role is not permitted, and next()
\* otherwise; a route behind it rejects a caller whose role is not
\* permitted with 403 and changes nothing.
AuthorizeDecides(absent) ==
  resp'.roles # {}
  => IF resp'.op = "authorize"
     THEN /\ resp'.status =
               (IF resp'.user = NoId THEN absent
                ELSE IF users[resp'.user].role \notin resp'.roles THEN 403
                ELSE 200)
          /\ UNCHANGED db
     ELSE /\ (resp'.user # NoId /\ users[resp'.user].role \notin resp'.roles)
               => (resp'.status = 403 /\ UNCHANGED db)
          /\ (resp'.user # NoId /\ users[resp'.user].role \in resp'.roles
                /\ resp'.op = "createWebsite")
               => resp'.status \in {201, 400}

\* C6 (as stated): authorize(roles) answers 403 when the context has no
\* identity or the identity's role is not permitted and passes the request
\* on otherwise, so the super_admin-only routes reject an admin and change
\* nothing.
C6_AbsentIdentityIs403 == [][AuthorizeDecides(403)]_vars

\* C6 (amended): as stated, except that a context without identity is
\* answered 401.
C6_AbsentIdentityIs401 == [][AuthorizeDecides(401)]_vars

\* An admin asked for a super_admin-only route and was rejected.
C6_Witness ==
  /\ resp.op = "assignAdmin"
  /\ resp.user # NoId
  /\ users[resp.user].role = "admin"
  /\ resp.status = 403

\* C7: no content-management request of an admin that has no websiteId is
\* accepted.
C7_UnassignedAdminShutOut ==
  [][(/\ resp'.op \in ContentOps
      /\ resp'.user # NoId
      /\ users[resp'.user].role = "admin"
      /\ users[resp'.user].websiteId = NoId)
     => resp'.status # 200]_vars

\* C8: GET /websites answers a caller that is not a super_admin with no
\* tenant other than the one the caller is scoped to.
C8_ListWithinScope ==
  (/\ resp.op = "getWebsites"
   /\ resp.status = 200
   /\ users[resp.user].role # "super_admin")
  => resp.list \subseteq {users[resp.user].websiteId}

\* C9: a login with the right password for an admin without websiteId is
\* answered 403, returns no tokens and leaves the stored refresh token and
\* lastLogin as they were.
C9_UnassignedAdminLoginRefused ==
  [][(/\ resp'.op = "login"
      /\ resp'.cred.kind = "password"
      /\ resp'.user # NoId
      /\ users[resp'.user].role = "admin"
      /\ users[resp'.user].websiteId = NoId)
     => (/\ resp'.status = 403
         /\ resp'.tokens = NoTokens
         /\ users'[resp'.user].refreshToken = users[resp'.user].refreshToken
         /\ users'[resp'.user].lastLogin = users[resp'.user].lastLogin
         /\ UNCHANGED issued)]_vars

\* An active admin without websiteId, holding a stored refresh token, logged
\* in with the right password and was refused.
C9_Witness ==
  /\ resp.op = "login"
  /\ resp.cred.kind = "password"
  /\ resp.status = 403
  /\ resp.user # NoId
  /\ users[resp.user].role = "admin"
  /\ users[resp.user].websiteId = NoId
  /\ users[resp.user].isActive
  /\ users[resp.user].refreshToken # NoId

\* No two hero sections of a tenant have the same page.
UniquePages ==
  \A t \in WebsiteIds :
    \A i, j \in 1..Len(heroSections[t]) :
      heroSections[t][i].page = heroSections[t][j].page => i = j

\* A successful upsert for the page of an existing entry changes that entry
\* only, keeps its id and the number of entries; one for a page without
\* entry appends exactly one entry, for that page.
UpsertInPlaceOrAppend ==
  (resp'.op = "upsertHeroSection" /\ resp'.status = 200)
  => LET old == heroSections[resp'.target]
         new == heroSections'[resp'.target]
         page == resp'.item.page
         had == \E i \in 1..Len(old) : old[i].page = page
     IN  IF had
         THEN /\ Len(new) = Len(old)
              /\ \A i \in 1..Len(old) :
                   /\ new[i].id = old[i].id
                   /\ new[i].page = old[i].page
                   /\ old[i].page # page => new[i] = old[i]
         ELSE /\ Len(new) = Len(old) + 1
              /\ SubSeq(new, 1, Len(old)) = old
              /\ new[Len(new)].page = page

\* C10: a tenant's heroSections hold at most one entry per page, an upsert
\* updating the entry of its page in place or else appending one entry.
C10_OneHeroPerPage == [](UniquePages) /\ [][UpsertInPlaceOrAppend]_vars

\* An upsert met an entry of its page while the tenant had two entries.
C10_Witness ==
  /\ resp.op = "upsertHeroSection"
  /\ resp.status = 200
  /\ Len(heroSections[resp.target]) = 2
  /\ resp.item.id < heroIds
  /\ resp.item.image # ""

\* C11: an upsertHeroSection that repeats the successful upsert right before
\* it (same tenant, same page, every field of its payload with the value the
\* first call stored) succeeds, leaves the tenant document and every stored
\* file as the first call left them, and leaves exactly one entry for its
\* page.
C11_UpsertIdempotent ==
  [][(resp'.op = "upsertHeroSection" /\ resp'.again)
     => LET t == resp'.target
            page == resp.item.page
        IN  /\ resp'.status = 200
            /\ UNCHANGED <<websites, heroSections, rooms, facilities, reviews,
                           files>>
            /\ Cardinality({i \in 1..Len(heroSections'[t]) :
                              heroSections'[t][i].page = page}) = 1]_vars

\* An upsert carrying the image of a stored file was repeated, and the entry
\* still refers to the file.
C11_Witness ==
  /\ resp.op = "upsertHeroSection"
  /\ resp.again
  /\ resp.status = 200
  /\ resp.item.image \in StoredUrls
  /\ Len(heroSections[resp.target]) = 2

\* No tenant holds more facilities than the limit.
FacilitiesWithinLimit ==
  \A t \in WebsiteIds : Len(facilities[t]) <= 6

\* An addFacility that reaches the handler of an existing tenant appends one
\* entry and answers 201 when the tenant holds fewer than 6, and answers 400
\* and leaves the collection alone when it holds 6.
AddFacilityUpToLimit ==
  (resp'.op = "addFacility" /\ resp'.status \notin {401, 403, 404})
  => LET t == resp'.target
     IN  IF Len(facilities[t]) < 6
         THEN resp'.status = 201 /\ Len(facilities'[t]) = Len(facilities[t]) + 1
         ELSE resp'.status = 400 /\ UNCHANGED facilities

\* C12: a tenant never holds more than 6 facilities: addFacility succeeds
\* below 6 entries and fails with 400, changing nothing, at 6.
C12_FacilitiesCappedAtSix ==
  [](FacilitiesWithinLimit) /\ [][AddFacilityUpToLimit]_vars

\* An addFacility was refused on a tenant that holds 6 facilities, after
\* facilities were changed and removed.
C12_Witness ==
  /\ resp.op = "addFacility"
  /\ resp.status = 400
  /\ Len(facilities[resp.target]) = 6
  /\ subIds > 6
  /\ \E i \in 1..6 : facilities[resp.target][i].image = ExternalUrl

\* No persisted room has more than 10 detail images.
DetailImagesWithinLimit ==
  \A t \in WebsiteIds :
    \A i \in 1..Len(rooms[t]) : Len(rooms[t][i].detailImages) <= 10

\* An addRoom or updateRoom that reaches its handler with more than 10
\* detail images is answered 400 and leaves every tenant document and every
\* stored file as it was.
OversizedRoomRejectedUntouched ==
  (/\ resp'.op \in {"addRoom", "updateRoom"}
   /\ resp'.status \notin {401, 403, 404}
   /\ resp'.body[3] # Absent
   /\ Len(Get(resp'.body[3], <<>>)) > 10)
  => (/\ resp'.status = 400
      /\ UNCHANGED <<websites, rooms, heroSections, facilities, reviews,
                     files>>)

\* C13: addRoom or updateRoom with more than 10 detailImages is rejected with
\* 400 before anything is changed, the stored files included, so that no
\* persisted room has more than 10.
C13_OversizedRoomRejectedFirst ==
  [](DetailImagesWithinLimit) /\ [][OversizedRoomRejectedUntouched]_vars

\* The folder of a website name holds no file.
FolderEmpty(name) == deleteWebsiteFolder(files, name) = files

\* The admin a delete request found assigned has no websiteId and no access
\* to the tenant.
AdminUnassigned(us) ==
  (pending.assignedAdmin # NoId /\ UserExists(pending.assignedAdmin))
  => /\ us[pending.assignedAdmin].websiteId = NoId
     /\ pending.target \notin us[pending.assignedAdmin].websiteAccess

\* C14: deleting a tenant T whose assignedAdmin is A removes T's document
\* and leaves A without websiteId and without T in websiteAccess; when the
\* document is removed, the unassignment and the deletion of the image folder
\* have already happened, and the document is removed by no earlier step.
C14_DeleteCascadesInOrder ==
  [][/\ ((pending.pc # "cleaned" /\ pending.target # NoId)
           => websites'[pending.target] = websites[pending.target])
      /\ ((pending.pc = "cleaned" /\ pending'.pc = "done")
           => (/\ AdminUnassigned(users)
               /\ FolderEmpty(pending.name)
               /\ websites[pending.target].status = "live"
               /\ websites'[pending.target].status = "deleted"
               /\ AdminUnassigned(users')
               /\ resp'.op = "deleteWebsite" /\ resp'.status = 200))]_vars

\* A tenant with an assigned admin and a stored file was deleted.
C14_Witness ==
  /\ pending.pc = "done"
  /\ resp.op = "deleteWebsite" /\ resp.status = 200
  /\ pending.assignedAdmin # NoId
  /\ UserExists(pending.assignedAdmin)
  /\ users[pending.assignedAdmin].websiteId = NoId
  /\ users[pending.assignedAdmin].websiteAccess = {}
  /\ fileIds > 0
  /\ files = {}

\* C15: after a successful deleteWebsite(T) every file that was stored for T
\* is gone and every file that was stored for another tenant is still there.
C15_DeleteRemovesExactlyOwnFiles ==
  [][(resp'.op = "deleteWebsite" /\ resp'.status = 200)
     => \A f \in files :
          IF f.websiteId = resp'.target THEN f \notin files'
          ELSE f \in files']_vars

\* No two tenants have the same domain.
DomainsUnique ==
  \A v, w \in WebsiteIds :
    (WebsiteExists(v) /\ WebsiteExists(w) /\ websites[v].domain = websites[w].domain)
      => v = w

\* createWebsite with a domain that a tenant holds, and updateWebsite with a
\* domain that another tenant holds, are answered 400 and change nothing;
\* updateWebsite with the tenant's own domain is accepted.
DomainCollisionRefused ==
  /\ resp'.op = "createWebsite"
       => LET domain == resp'.body[2]
              taken == \E w \in WebsiteIds :
                        WebsiteExists(w) /\ websites[w].domain = domain
          IN  IF taken THEN resp'.status = 400 /\ UNCHANGED db
              ELSE DomainInUse(domain, NoId) \/ resp'.status = 201
  /\ (resp'.op = "updateWebsite" /\ resp'.body[2] # Absent)
       => LET domain == Get(resp'.body[2], "")
              t == resp'.target
              taken == \E w \in WebsiteIds :
                        /\ WebsiteExists(w) /\ w # t
                        /\ websites[w].domain = domain
          IN  /\ taken => (resp'.status = 400 /\ UNCHANGED db)
              /\ (WebsiteExists(t) /\ websites[t].domain = domain)
                   => (resp'.status = 200 /\ websites'[t].domain = domain)

\* C16: no two tenants ever have the same domain: a create or an update that
\* would collide with another tenant's domain is refused with 400, and an
\* update that resends the tenant's own domain is accepted.
C16_DomainsNeverCollide ==
  [](DomainsUnique) /\ [][DomainCollisionRefused]_vars

\* With two tenants stored, a change of one's domain to the other's,
\* spelled in upper case, was refused.
C16_Witness ==
  /\ resp.op = "updateWebsite"
  /\ resp.status = 400
  /\ resp.body[2] = Some("INN.com")
  /\ \A w \in WebsiteIds : WebsiteExists(w)
  /\ \E w \in WebsiteIds : w # resp.target /\ websites[w].domain = "inn.com"

\* The embedded collections and objects of a tenant document.
EmbeddedPaths == {"rooms", "heroSections", "facilities", "reviews", "offer",
                  "ourStory", "siteSettings", "hotelInfo"}

\* C17: getWebsite right after the createWebsite that made the tenant returns
\* a document in which every embedded collection and object is defined and
\* the collections are empty, and which has no assignedAdmin.
C17_CreatedTenantFullyPopulated ==
  [][(/\ resp.op = "createWebsite" /\ resp.status = 201
      /\ resp'.op = "getWebsite" /\ resp'.status = 200
      /\ resp'.target = resp.target)
     => LET t == resp'.target
        IN  /\ resp'.list = {t}
            /\ EmbeddedPaths \subseteq websites[t].defined
            /\ rooms[t] = <<>> /\ heroSections[t] = <<>>
            /\ facilities[t] = <<>> /\ reviews[t] = <<>>
            /\ websites[t].assignedAdmin = NoId]_vars

\* C18: a successful public read returns exactly the stored rooms with
\* isAvailable true and exactly the stored hero sections with isActive true,
\* each in stored order, and totalRooms is the number of rooms returned.
C18_PublicReadShowsOnlyVisible ==
  (resp.op = "getWebsiteByUniqueId" /\ resp.status = 200)
    => LET t == resp.target
           Available(r) == r.isAvailable
           Active(h) == h.isActive
           shown == resp.public.rooms
       IN  /\ WebsiteExists(t) /\ websites[t].isActive
           /\ shown = SelectSeq(rooms[t], Available)
           /\ \A i \in DOMAIN shown : shown[i].isAvailable
           /\ resp.public.heroSections = SelectSeq(heroSections[t], Active)
           /\ \A i \in DOMAIN resp.public.heroSections :
                 resp.public.heroSections[i].isActive
           /\ resp.public.totalRooms = Len(shown)

\* A public read of a tenant with a hidden room stored before a shown one and
\* with a hidden and a shown hero section.
C18_Witness ==
  /\ resp.op = "getWebsiteByUniqueId"
  /\ resp.status = 200
  /\ Len(rooms[resp.target]) = 2
  /\ ~rooms[resp.target][1].isAvailable
  /\ rooms[resp.target][2].isAvailable
  /\ Len(resp.public.rooms) = 1
  /\ Len(heroSections[resp.target]) = 2
  /\ Len(resp.public.heroSections) = 1

\* C19: every stored rating lies in 1..5, and a successful public read
\* returns 0 for a tenant without reviews and otherwise a value that, times
\* the number of reviews, is the sum of the ratings, and lies in [1, 5].
C19_AverageRatingIsMean ==
  /\ \A w \in WebsiteIds : \A i \in DOMAIN reviews[w] :
        reviews[w][i].rating \in 1..5
  /\ (resp.op = "getWebsiteByUniqueId" /\ resp.status = 200)
       => LET rs == reviews[resp.target]
              avg == resp.public.averageRating
          IN  /\ avg.den > 0
              /\ IF rs = <<>>
                 THEN avg.num = 0
                 ELSE /\ avg.num * Len(rs) = SumRatings(rs) * avg.den
                      /\ avg.den <= avg.num
                      /\ avg.num <= 5 * avg.den

\* A public read of a tenant whose reviews are rated 4 and 2 returned 3.
C19_Witness ==
  /\ resp.op = "getWebsiteByUniqueId"
  /\ resp.status = 200
  /\ Len(reviews[resp.target]) = 2
  /\ reviews[resp.target][1].rating = 4
  /\ reviews[resp.target][2].rating = 2
  /\ resp.public.averageRating.num = 3 * resp.public.averageRating.den

\* The response of a public read that found nothing, but for the identifier
\* it was asked for.
PublicNotFound ==
  [op |-> "getWebsiteByUniqueId", cred |-> NoCred, roles |-> {},
   status |-> 404, user |-> NoId, target |-> NoId, list |-> {},
   tokens |-> NoTokens, item |-> NoHero, params |-> <<NoId, NoId, NoId>>,
   body |-> <<>>, again |-> FALSE, url |-> "", public |-> NoPublic]

\* C20: a public read succeeds only for the public identifier of an active
\* tenant; for an identifier no tenant has and for that of an inactive tenant
\* it answers the same 404 response; the internal id of a tenant never
\* succeeds.
C20_PublicLookupByUniqueIdOnly ==
  resp.op = "getWebsiteByUniqueId"
    => LET uniqueId == resp.body[1]
           owners == {w \in WebsiteIds :
                        WebsiteExists(w) /\ websites[w].uniqueId = uniqueId}
           active == {w \in owners : websites[w].isActive}
       IN  /\ resp.status = 200 => resp.target \in active
           /\ active = {} => [resp EXCEPT !.body = <<>>] = PublicNotFound
           /\ (\E w \in WebsiteIds : uniqueId = ObjectIdString(w))
                => resp.status = 404

\* A public read by the public identifier of a stored, inactive tenant was
\* answered 404.
C20_Witness ==
  /\ resp.op = "getWebsiteByUniqueId"
  /\ resp.status = 404
  /\ \E w \in WebsiteIds :
        /\ WebsiteExists(w)
        /\ websites[w].uniqueId = resp.body[1]
        /\ ~websites[w].isActive

\* The data built from the document of a stored tenant does not change with
\* the document's _id nor with the admin it is assigned to.
PublicBodyIgnoresIdAndAdmin ==
  \A w \in WebsiteIds :
    WebsiteExists(w)
      => \A id \in WebsiteIds, a \in {NoId} \cup UserIds :
           PublicBody(id, [websites[w] EXCEPT !.assignedAdmin = a], rooms[w],
                      heroSections[w], facilities[w], reviews[w])
           = PublicBody(w, websites[w], rooms[w], heroSections[w],
                        facilities[w], reviews[w])

\* A step that changes nothing of the tenant documents but their assigned
\* admins, whatever it does to the identities and the contact messages,
\* changes the public response of no public identifier.
PublicResponseFramed ==
  (/\ \A w \in WebsiteIds :
        [websites'[w] EXCEPT !.assignedAdmin = NoId]
        = [websites[w] EXCEPT !.assignedAdmin = NoId]
   /\ UNCHANGED <<rooms, heroSections, facilities, reviews>>)
  => \A uniqueId \in UniqueIds :
       PublicResponse(uniqueId)' = PublicResponse(uniqueId)

\* C21: the public response depends neither on the tenant's internal id
\* nor on its assignedAdmin, nor on the identities or the contact messages:
\* states that differ only in those answer every public identifier alike.
C21_PublicResponseIndependent ==
  [](PublicBodyIgnoresIdAndAdmin) /\ [][PublicResponseFramed]_vars

\* A public read answered 200 for a tenant that is assigned to an admin and
\* has received a contact message.
C21_Witness ==
  /\ resp.op = "getWebsiteByUniqueId"
  /\ resp.status = 200
  /\ websites[resp.target].assignedAdmin # NoId
  /\ \E m \in MessageIds :
        MessageExists(m) /\ messages[m].websiteId = resp.target

\* An assignAdmin that looks up the user of its adminId answers the status
\* missing when no such user exists and 400 when the user's role is not
\* admin, and changes no tenant and no identity in either case; otherwise
\* it succeeds.
AssignAdminValidates(missing) ==
  (resp'.op = "assignAdmin" /\ resp'.body # <<>>)
  => LET adminId == resp'.body[1]
     IN  IF ~UserExists(adminId)
         THEN resp'.status = missing /\ UNCHANGED <<users, websites>>
         ELSE IF users[adminId].role # "admin"
         THEN resp'.status = 400 /\ UNCHANGED <<users, websites>>
         ELSE resp'.status = 200

StoredTokenIsLatest ==
  \A u \in UserIds :
    UserExists(u) => users[u].refreshToken \in {NoId, issued[u]}

\* A refresh that presents the token stored with its user answers 200 with a
\* new pair and stores the new refresh token, which differs from every token
\* issued before; a refresh that presents another token, or one that does
\* not verify, answers 401 and changes nothing.
RefreshRotates ==
  /\ (resp'.op = "refresh" /\ resp'.cred.kind = "ok")
       => LET u == resp'.body[1]
              serial == resp'.body[2]
          IN  IF UserExists(u) /\ users[u].refreshToken = serial
              THEN /\ resp'.status = 200
                   /\ resp'.tokens.refresh > issued[u]
                   /\ resp'.tokens.refresh # serial
                   /\ users'[u].refreshToken = resp'.tokens.refresh
              ELSE /\ resp'.status = 401
                   /\ UNCHANGED <<users, websites, issued>>
  /\ (resp'.op = "refresh" /\ resp'.cred.kind = "badsig")
       => resp'.status = 401 /\ UNCHANGED <<users, websites, issued>>

\* C23: POST /auth/refresh rotates the refresh token: the stored token buys
\* a new pair and is replaced by the new refresh token, so that it is
\* rejected from then on; a token that is not the stored one, and every
\* token after logout, is answered 401 and changes nothing.
C23_RefreshRotates == [](StoredTokenIsLatest) /\ [][RefreshRotates]_vars

\* A refresh token that verifies and was rotated away was presented again
\* and rejected.
C23_Witness ==
  /\ resp.op = "refresh"
  /\ resp.status = 401
  /\ resp.cred.kind = "ok"
  /\ resp.body # <<>>
  /\ UserExists(resp.body[1])
  /\ users[resp.body[1]].refreshToken > resp.body[2]

\* The URLs of the files a step removes from storage.
Unlinked == {f.url : f \in files} \ {f.url : f \in files'}

\* The old value of an image field as a set: the value itself if the body
\* carries the field (new), the old value is not empty and the new value is
\* another one, and nothing otherwise.
Replaced(old, new) ==
  IF new # Absent /\ old # "" /\ old # Get(new, "") THEN {old} ELSE {}

\* A request that changes image fields removes exactly the stored files of
\* the fields it replaces: updateRoom (mainImage, in a body without
\* detailImages), updateFacility (image), updateReview (avatar) and
\* updateSiteSettings (logo, footerLogo) when they reach the entry, and a
\* successful upsertHeroSection (image), whose response shows the image
\* the entry has now.
ReplacedFilesUnlinked ==
  LET t == resp'.target
      b == resp'.body
      reached == resp'.status \in {200, 500}
      stored == {f.url : f \in files}
      SamePage == {h \in {heroSections[t][i] : i \in DOMAIN heroSections[t]} :
                     h.page = resp'.item.page}
  IN  /\ (resp'.op = "updateRoom" /\ b[3] = Absent)
           => Unlinked =
                IF reached
                THEN Replaced(rooms[t][FindIndex(rooms[t],
                                ById(rooms[t], b[1]))].mainImage, b[2])
                       \cap stored
                ELSE {}
      /\ resp'.op = "updateFacility"
           => Unlinked =
                IF reached
                THEN Replaced(facilities[t][FindIndex(facilities[t],
                                ById(facilities[t], b[1]))].image, b[2])
                       \cap stored
                ELSE {}
      /\ resp'.op = "updateReview"
           => Unlinked =
                IF reached
                THEN Replaced(reviews[t][FindIndex(reviews[t],
                                ById(reviews[t], b[1]))].avatar, b[2])
                       \cap stored
                ELSE {}
      /\ resp'.op = "updateSiteSettings"
           => Unlinked =
                IF reached
                THEN (Replaced(websites[t].logo, b[1])
                        \cup Replaced(websites[t].footerLogo, b[2]))
                       \cap stored
                ELSE {}
      /\ (resp'.op = "upsertHeroSection" /\ resp'.status = 200)
           => Unlinked =
                {h.image : h \in {x \in SamePage :
                                    /\ x.image # ""
                                    /\ x.image # resp'.item.image}}
                  \cap stored

\* C24: updateRoom, upsertHeroSection, updateFacility, updateReview and
\* updateSiteSettings delete the file an image field held if and only if
\* the body carries the field, the old value is not empty and the new value
\* differs from it; resending the same path or omitting the field deletes
\* no file.
C24_OldFileDeletedOnlyWhenReplaced == [][ReplacedFilesUnlinked]_vars

\* updateSiteSettings set the logo to a stored file in a body without
\* footerLogo, and of the two files uploaded only the logo's is left.
C24_Witness ==
  /\ resp.op = "updateSiteSettings"
  /\ resp.status = 200
  /\ resp.body[1] = Some(websites[resp.target].logo)
  /\ resp.body[2] = Absent
  /\ websites[resp.target].logo \in StoredUrls
  /\ websites[resp.target].footerLogo = ""
  /\ fileIds = 2
  /\ Cardinality(files) = 1

\* The save of a loaded updateRoom request succeeds whatever other requests
\* saved since it loaded, and leaves in the stored room the fields of its
\* own body: the last save wins.
LastSaveWins ==
  \A k \in Clients :
    (inflight[k].pc = "loaded" /\ inflight'[k].pc = "done")
    => LET t == inflight[k].target
           idx == FindIndex(rooms'[t], ById(rooms'[t], inflight[k].roomId))
       IN  /\ inflight'[k].status = 200
           /\ resp'.status = 200
           /\ inflight[k].mainImage # Absent
                => Some(rooms'[t][idx].mainImage) = inflight[k].mainImage
           /\ inflight[k].isAvailable # Absent
                => Some(rooms'[t][idx].isAvailable) = inflight[k].isAvailable

\* C25: requests on one tenant document are not serialized: of two
\* overlapping updateRoom requests both succeed and the second save
\* overwrites what the first saved.
C25_LostUpdateReachable == [][LastSaveWins]_vars

\* Two requests that set the main image of the same room to different files
\* have both been answered 200; the room holds the image of one, and the
\* file of the other, which the second request would have unlinked had it
\* loaded the room after the first save, is still stored.
C25_Witness ==
  /\ \A k \in Clients : inflight[k].pc = "done" /\ inflight[k].status = 200
  /\ inflight[1].roomId = inflight[2].roomId
  /\ inflight[1].mainImage # Absent
  /\ inflight[2].mainImage # Absent
  /\ inflight[1].mainImage # inflight[2].mainImage
  /\ inflight[1].room = inflight[2].room
  /\ \E i \in DOMAIN rooms[1] :
        /\ rooms[1][i].id = inflight[1].roomId
        /\ Some(rooms[1][i].mainImage) = inflight[2].mainImage
  /\ inflight[1].mainImage \subseteq StoredUrls

\* C26: a toggle-read or delete request of an admin on
\* /websites/X/contact-messages/:messageId changes no contact message but
\* one whose websiteId is X, the tenant the admin is assigned to.
C26_MessagesScopedToTenant ==
  [][(/\ resp'.op \in {"toggleMessageRead", "deleteContactMessage"}
      /\ resp'.user # NoId
      /\ users[resp'.user].role = "admin")
     => \A m \in MessageIds :
          messages'[m] # messages[m]
          => /\ messages[m].websiteId = resp'.target
             /\ websites[resp'.target].assignedAdmin = resp'.user]_vars

\* C28: the public register route, which takes no credential, never answers
\* with a super_admin access token and never creates an identity whose role
\* passes the super_admin gate.
C28_RegisterNeverSuperAdmin ==
  [][(resp'.op = "register" /\ resp'.status = 201)
     => /\ resp'.cred = NoCred
        /\ resp'.tokens.access.role # "super_admin"
        /\ users'[resp'.user].role \notin SuperOnly]_vars

\* The files of the /public folder of tenant w.
FolderOf(w) == {f \in files : f.websiteId = w}

\* C27: a request of an admin who is not the assigned admin of tenant T
\* neither adds a file to nor removes a file from T's folder.
C27_FolderChangedOnlyByAssignedAdmin ==
  [][(/\ resp'.user # NoId
      /\ users[resp'.user].role = "admin")
     => \A w \in WebsiteIds :
          websites[w].assignedAdmin # resp'.user
          => FolderOf(w)' = FolderOf(w)]_vars

\* Admin u was assigned to tenant t and assignAdmin has since given t to
\* another admin: t is still in u's websiteAccess, which only an assignment
\* adds to, and t's assignedAdmin is someone else.
Replaced_On(u, t) ==
  /\ UserExists(u)
  /\ users[u].role = "admin"
  /\ WebsiteExists(t)
  /\ t \in users[u].websiteAccess
  /\ websites[t].assignedAdmin # u

\* C30: once assignAdmin has replaced admin A on tenant T, no later request
\* of A is answered with T's document.
C30_ReplacedAdminDenied ==
  [][\A t \in WebsiteIds :
       (resp'.user # NoId /\ Replaced_On(resp'.user, t))
       => ~(resp'.status = 200 /\ t \in resp'.list)]_vars

\* The image URLs the persisted document of tenant w refers to.
ReferencedUrls(w) ==
  {websites[w].logo, websites[w].footerLogo}
    \cup {websites[w].storyImages[i] : i \in DOMAIN websites[w].storyImages}
    \cup {heroSections[w][i].image : i \in DOMAIN heroSections[w]}
    \cup {rooms[w][i].mainImage : i \in DOMAIN rooms[w]}
    \cup UNION {{rooms[w][i].detailImages[j] :
                   j \in DOMAIN rooms[w][i].detailImages} :
                i \in DOMAIN rooms[w]}
    \cup {facilities[w][i].image : i \in DOMAIN facilities[w]}
    \cup {reviews[w][i].avatar : i \in DOMAIN reviews[w]}

\* C29: whatever a request is answered, no file that a persisted tenant
\* document refers to after the request has been unlinked by it.
C29_ReferencedFilesSurvive ==
  [][\A w \in WebsiteIds, f \in files :
       (WebsiteExists(w)' /\ f.url \in ReferencedUrls(w)') => f \in files']_vars

====
